---- MODULE Spec2Model ----
(***************************************************************************)
(* Credential lifecycle and token issuance of the BAS developer portal     *)
(* backend: partner credentials (internal/services/partner_credential_     *)
(* service.go over internal/repository/partner_credential_repository.go),  *)
(* API keys (APIKeyService over APIKeyRepository) and session tokens       *)
(* (AuthService and the JWTAuth middleware).                               *)
(*                                                                         *)
(* Every repository call is one atomic step against the store; a service   *)
(* operation is the sequence of its repository calls, so that requests     *)
(* handled concurrently interleave between those calls.  Random values     *)
(* (client IDs, secrets, channel IDs, row IDs) are inputs of the step      *)
(* that uses them; each specification says which values the random source  *)
(* may deliver.                                                            *)
(***************************************************************************)
EXTENDS Integers, Sequences, FiniteSets, TLC

VARIABLES
    creds,      \* partner_credentials table: row ID -> row
    apiKeys,    \* api_keys table: row ID -> row
    users,      \* users table: user ID -> row
    pc,         \* per request handler: the repository call it is about to make
    loc,        \* per request handler: the local variables of the running call
    ret,        \* per request handler: what its last finished call returned
    rng,        \* number of secrets drawn from crypto/rand so far
    rotated,    \* history: <<row ID, secret>> pairs replaced by RegenerateSecret
    now,        \* time.Now().Unix()
    cfg,        \* config.Config: JWTSecret and JWTExpiryHours
    issued      \* history: the token pairs the auth service has returned

vars == <<creds, apiKeys, users, pc, loc, ret, rng, rotated, now, cfg, issued>>

(***************************************************************************)
(* Bounds                                                                  *)
(***************************************************************************)
MaxCredRows == 1        \* partner credentials of the first principal
MaxOtherRows == 1       \* partner credentials of each other principal
MaxQuotaRows == 6       \* the same, in the quota specifications
MaxDraws == 2           \* secrets drawn from the random source
MaxKeyRows == 11        \* API keys of the first principal
MaxRevocable == 3       \* API keys of a principal that RevokeKey requests name
MaxIssued == 3          \* token pairs returned by the auth service
MaxExpiryHours == 2     \* largest configured JWT_EXPIRY_HOURS
MaxLifetimeRows == 2    \* API keys and partner credentials together, in SpecLifetime
MaxLifetimeIssued == 2  \* token pairs returned in SpecLifetime

Users == {"u1", "u2"}           \* principals (uuid values of the userID local)
Procs == {"p1", "p2"}           \* request handlers running concurrently

(***************************************************************************)
(* Errors of the services                                                  *)
(***************************************************************************)
NoError == "nil"
ErrCredentialNotFound == "partner credential not found"
ErrMaxCredentialsReached == "maximum number of credentials reached"
ErrInvalidPublicKey == "invalid public key format"
ErrDuplicateKey == "duplicate key value violates unique constraint"
ErrMaxKeysReached == "maximum number of API keys reached"
ErrKeyNotFound == "API key not found"
ErrInvalidCredentials == "invalid email or password"
ErrEmailExists == "email already registered"
ErrUserNotFound == "user not found"
ErrInvalidRefreshToken == "invalid refresh token"
ErrInvalidTokenType == "invalid token type"
ErrInvalidUserID == "invalid user ID in token"
ErrInvalidUserIDFormat == "invalid user ID format"

NoVal == [none |-> TRUE]
Idle == "idle"
NoLoc == [op |-> "none"]
NoRet == [op |-> "none", req |-> NoVal, err |-> "pending", val |-> NoVal]

(***************************************************************************)
(* models: partner credential helpers                                      *)
(***************************************************************************)
\* A 64-hex-character secret is kept as <<first 8 characters, the rest>>.
\* The n-th draw of the random source:
HeadSpace == 2
GenSecret(n) == <<n % HeadSpace, n>>

\* secretPrefix = clientSecret[:8] + "..."
SecretPrefix(clientSecret) == <<clientSecret[1], "...">>

\* A PEM text is kept as what pem.Decode and the x509 parsers make of it:
\*   text  - FALSE for the empty string
\*   block - whether pem.Decode finds a block
\*   type  - the block type
\*   der   - the block bytes; "pkix*" parse as PKIX, "pkcs1*" as PKCS#1
EmptyKey == [text |-> FALSE, block |-> FALSE, type |-> "", der |-> ""]
NotPEM == [text |-> TRUE, block |-> FALSE, type |-> "", der |-> ""]
CertPEM == [text |-> TRUE, block |-> TRUE, type |-> "CERTIFICATE", der |-> "pkix1"]
PkixPEM == [text |-> TRUE, block |-> TRUE, type |-> "PUBLIC KEY", der |-> "pkix1"]
Pkcs1PEM == [text |-> TRUE, block |-> TRUE, type |-> "RSA PUBLIC KEY", der |-> "pkcs1a"]
JunkPEM == [text |-> TRUE, block |-> TRUE, type |-> "PUBLIC KEY", der |-> "junk"]
Pkix2PEM == [text |-> TRUE, block |-> TRUE, type |-> "PUBLIC KEY", der |-> "pkix2"]

ParsePKIXPublicKey(der) == der \in {"pkix1", "pkix2"}
ParsePKCS1PublicKey(der) == der \in {"pkcs1a"}

\* hex(sha256(der)): 64 characters, kept as <<first 16 characters, the rest>>
Sha256Hex(der) == <<[digest |-> der, chars |-> "0-15"], [digest |-> der, chars |-> "16-63"]>>

\* mutant: the block type is not looked at
ValidatePublicKey_AnyType(pemKey) ==
    IF pemKey = EmptyKey THEN [fingerprint |-> <<>>, err |-> FALSE]
    ELSE IF ~pemKey.block THEN [fingerprint |-> <<>>, err |-> TRUE]
    ELSE IF ~ParsePKIXPublicKey(pemKey.der) /\ ~ParsePKCS1PublicKey(pemKey.der)
         THEN [fingerprint |-> <<>>, err |-> TRUE]
    ELSE [fingerprint |-> Sha256Hex(pemKey.der), err |-> FALSE]

\* ValidatePublicKey returns (fingerprint, err); err is TRUE for a non-nil error
ValidatePublicKey(pemKey) ==
    IF pemKey = EmptyKey THEN [fingerprint |-> <<>>, err |-> FALSE]
    ELSE IF ~pemKey.block THEN [fingerprint |-> <<>>, err |-> TRUE]
    ELSE IF pemKey.type # "PUBLIC KEY" /\ pemKey.type # "RSA PUBLIC KEY"
         THEN [fingerprint |-> <<>>, err |-> TRUE]
    ELSE IF ~ParsePKIXPublicKey(pemKey.der) /\ ~ParsePKCS1PublicKey(pemKey.der)
         THEN [fingerprint |-> <<>>, err |-> TRUE]
    ELSE [fingerprint |-> Sha256Hex(pemKey.der), err |-> FALSE]

\* FormatFingerprint: shorter than 16 characters is returned as is, otherwise the
\* first 16 characters as colon-separated pairs followed by "..."
FormatFingerprint(fingerprint) ==
    IF Len(fingerprint) < 1 THEN fingerprint
    ELSE <<[digest |-> fingerprint[1].digest, chars |-> "0-15 colon pairs"],
           [digest |-> "", chars |-> "..."]>>

\* mutant: the response carries the stored secret
ToResponse_WithSecret(p) ==
    [ID |-> p.ID, ClientID |-> p.ClientID,
     ClientSecret |-> p.ClientSecret,
     ClientSecretPrefix |-> p.ClientSecretPrefix,
     PublicKeyFingerprint |-> FormatFingerprint(p.PublicKeyFingerprint),
     PublicKeyAddedAt |-> p.PublicKeyAddedAt,
     PartnerName |-> p.PartnerName, ChannelID |-> p.ChannelID,
     Environment |-> p.Environment, CallbackURL |-> p.CallbackURL,
     IPWhitelist |-> p.IPWhitelist, IsActive |-> p.IsActive,
     LastUsedAt |-> p.LastUsedAt]

\* PartnerCredential.ToResponse
ToResponse(p) ==
    [ID |-> p.ID, ClientID |-> p.ClientID,
     ClientSecretPrefix |-> p.ClientSecretPrefix,
     PublicKeyFingerprint |-> FormatFingerprint(p.PublicKeyFingerprint),
     PublicKeyAddedAt |-> p.PublicKeyAddedAt,
     PartnerName |-> p.PartnerName, ChannelID |-> p.ChannelID,
     Environment |-> p.Environment, CallbackURL |-> p.CallbackURL,
     IPWhitelist |-> p.IPWhitelist, IsActive |-> p.IsActive,
     LastUsedAt |-> p.LastUsedAt]

\* PartnerCredentialCreateResponse{PartnerCredentialResponse, ClientSecret}
ToCreateResponse(p, clientSecret) ==
    [Response |-> ToResponse(p), ClientSecret |-> clientSecret]

\* maskPublicKey: a text under 100 characters (no stored PEM block is that short)
\* is returned as is; of a longer one the first and last 20 characters of its
\* base64 form remain, which cover the PEM header and footer lines
maskPublicKey(key) ==
    IF ~key.block THEN key
    ELSE [text |-> TRUE, block |-> FALSE, type |-> key.type, der |-> "..."]

\* PartnerCredentialDetailResponse{PartnerCredentialResponse, PublicKey}
ToDetailResponse(p) ==
    [Response |-> ToResponse(p),
     PublicKey |-> IF p.PublicKey # EmptyKey THEN maskPublicKey(p.PublicKey) ELSE EmptyKey]

(***************************************************************************)
(* repository: partner_credentials.  gorm adds "deleted_at IS NULL" to     *)
(* every query and update of a model that has a gorm.DeletedAt field.      *)
(***************************************************************************)
CredIDs == DOMAIN creds
Live(id) == id \in CredIDs /\ creds[id].DeletedAt = <<>>

\* mutant: the row is looked up by its ID alone
FindByIDAndUserID_AnyOwner(id, userID) ==
    {i \in CredIDs : i = id /\ Live(i)}

\* FindByIDAndUserID: the set of matching rows (empty: gorm.ErrRecordNotFound)
FindByIDAndUserID(id, userID) ==
    {i \in CredIDs : i = id /\ creds[i].UserID = userID /\ Live(i)}

\* FindByClientID: the set of matching rows
FindByClientID(clientID) ==
    {i \in CredIDs : creds[i].ClientID = clientID /\ creds[i].IsActive /\ Live(i)}

\* FindByUserID
FindByUserID(userID) ==
    {i \in CredIDs : creds[i].UserID = userID /\ creds[i].IsActive /\ Live(i)}

\* mutant: the count includes soft-deleted rows (an Unscoped query)
CountByUserID_Unscoped(userID) ==
    Cardinality({i \in CredIDs : creds[i].UserID = userID /\ creds[i].IsActive})

CountByUserID(userID) ==
    Cardinality({i \in CredIDs : creds[i].UserID = userID /\ creds[i].IsActive /\ Live(i)})

\* mutant: the unique index leaves soft-deleted rows out
ClientIDIndexed_LiveOnly(clientID) ==
    \E i \in CredIDs : creds[i].ClientID = clientID /\ creds[i].DeletedAt = <<>>

\* ClientID `gorm:"uniqueIndex"`: whether the index on client_id, which covers
\* soft-deleted rows as well, holds this client ID
ClientIDIndexed(clientID) == \E i \in CredIDs : creds[i].ClientID = clientID

\* uuid.New() in BeforeCreate: a row ID no row has; the k-th row of a user is <<user, k>>
NewCredID(userID) ==
    <<userID, Cardinality({i \in CredIDs : creds[i].UserID = userID}) + 1>>

MaxCredentialsPerUser == 5


(***************************************************************************)
(* Request handlers                                                        *)
(***************************************************************************)
AllIdle == \A q \in Procs : pc[q] = Idle

\* the handler returns (val, err) to its caller
\* (req: the arguments of the call that returns)
Return(p, op, req, e, v) ==
    /\ pc' = [pc EXCEPT ![p] = Idle]
    /\ loc' = [loc EXCEPT ![p] = NoLoc]
    /\ ret' = [ret EXCEPT ![p] = [op |-> op, req |-> req, err |-> e, val |-> v]]

\* the handler goes on to its next repository call
Goto(p, label, l) ==
    /\ pc' = [pc EXCEPT ![p] = label]
    /\ loc' = [loc EXCEPT ![p] = l]
    /\ ret' = [ret EXCEPT ![p] = NoRet]

UnchangedOthers == UNCHANGED <<apiKeys, users, now, cfg, issued>>

\* db.Save(credential) on a row that is soft-deleted: the UPDATE (which carries
\* "deleted_at IS NULL") affects no row, and gorm falls back to an insert of the
\* struct, which depending on the gorm release is an upsert of all columns or a
\* plain INSERT that fails on the primary key.
SaveOutcomes == {"upsert", "duplicate"}

\* mutant: the UPDATE is not issued
SaveTable_NotWritten(credential, outcome) == creds

\* PartnerCredentialRepository.Update: the table after the call
SaveTable(credential, outcome) ==
    IF Live(credential.ID) \/ outcome = "upsert"
    THEN [creds EXCEPT ![credential.ID] = credential]
    ELSE creds

\* PartnerCredentialRepository.Update: its error
SaveError(credential, outcome) ==
    IF Live(credential.ID) \/ outcome = "upsert" THEN NoError ELSE ErrDuplicateKey

(***************************************************************************)
(* PartnerCredentialService.CreateCredential                               *)
(***************************************************************************)
\* CountByUserID, then GenerateClientCredentials, GenerateChannelID and
\* ValidatePublicKey; clientID is the client ID the random source delivers
CreateCredential_Count(p, userID, input, clientID) ==
    /\ pc[p] = Idle
    /\ UNCHANGED <<creds, rotated>>
    /\ UnchangedOthers
    /\ IF CountByUserID(userID) >= MaxCredentialsPerUser
       THEN /\ Return(p, "CreateCredential", [userID |-> userID, input |-> input], ErrMaxCredentialsReached, NoVal)
            /\ UNCHANGED rng
       ELSE /\ rng' = rng + 1
            /\ IF input.PublicKey # EmptyKey /\ ValidatePublicKey(input.PublicKey).err
               THEN Return(p, "CreateCredential", [userID |-> userID, input |-> input], ErrInvalidPublicKey, NoVal)
               ELSE Goto(p, "CreateCredential_Insert",
                         [op |-> "CreateCredential", req |-> [userID |-> userID, input |-> input],
                          credential |->
                            [ID |-> <<>>,
                             UserID |-> userID,
                             ClientID |-> clientID,
                             ClientSecret |-> GenSecret(rng + 1),
                             ClientSecretPrefix |-> SecretPrefix(GenSecret(rng + 1)),
                             PublicKey |-> input.PublicKey,
                             PublicKeyFingerprint |->
                                IF input.PublicKey # EmptyKey
                                THEN ValidatePublicKey(input.PublicKey).fingerprint
                                ELSE <<>>,
                             PublicKeyAddedAt |->
                                IF input.PublicKey # EmptyKey THEN <<now>> ELSE <<>>,
                             PartnerName |-> input.PartnerName,
                             ChannelID |-> <<"CH", rng + 1>>,
                             Environment |->
                                IF input.Environment = "" THEN "sandbox"
                                ELSE input.Environment,
                             CallbackURL |-> input.CallbackURL,
                             IPWhitelist |-> input.IPWhitelist,
                             IsActive |-> TRUE,
                             LastUsedAt |-> <<>>,
                             DeletedAt |-> <<>>]])

\* repo.Create: BeforeCreate gives the row its ID; the unique index on client_id
\* rejects a client ID that any row already has
CreateCredential_Insert(p) ==
    /\ pc[p] = "CreateCredential_Insert"
    /\ UNCHANGED <<rng, rotated>>
    /\ UnchangedOthers
    /\ LET credential == [loc[p].credential EXCEPT
                            !.ID = NewCredID(loc[p].credential.UserID)]
       IN IF ClientIDIndexed(credential.ClientID)
          THEN /\ UNCHANGED creds
               /\ Return(p, "CreateCredential", loc[p].req, ErrDuplicateKey, NoVal)
          ELSE /\ creds' = [i \in CredIDs \cup {credential.ID} |->
                              IF i = credential.ID THEN credential ELSE creds[i]]
               /\ Return(p, "CreateCredential", loc[p].req, NoError,
                         ToCreateResponse(credential, credential.ClientSecret))

(***************************************************************************)
(* PartnerCredentialService.ListCredentials and GetCredential              *)
(***************************************************************************)
\* Order("created_at DESC"): the rows of one owner, the newest first (the k-th row
\* an owner creates has the ID <<owner, k>>)
NewestFirst(ids) ==
    CHOOSE order \in [1..Cardinality(ids) -> ids] :
        \A a \in 1..Cardinality(ids), b \in 1..Cardinality(ids) :
            a < b => order[a][2] > order[b][2]

\* FindByUserID, then ToResponse of each row
ListCredentials(p, userID) ==
    /\ pc[p] = Idle
    /\ UNCHANGED <<creds, rng, rotated>>
    /\ UnchangedOthers
    /\ Return(p, "ListCredentials", [userID |-> userID], NoError,
              [Items |-> [k \in 1..Cardinality(FindByUserID(userID)) |->
                            ToResponse(creds[NewestFirst(FindByUserID(userID))[k]])]])

\* FindByIDAndUserID, then ToDetailResponse
GetCredential(p, id, userID) ==
    /\ pc[p] = Idle
    /\ UNCHANGED <<creds, rng, rotated>>
    /\ UnchangedOthers
    /\ IF FindByIDAndUserID(id, userID) = {}
       THEN Return(p, "GetCredential", [id |-> id, userID |-> userID], ErrCredentialNotFound, NoVal)
       ELSE Return(p, "GetCredential", [id |-> id, userID |-> userID], NoError,
                   ToDetailResponse(creds[id]))

(***************************************************************************)
(* PartnerCredentialService.UpdateCredential                               *)
(***************************************************************************)
UpdateCredential_Find(p, id, userID, input) ==
    /\ pc[p] = Idle
    /\ UNCHANGED <<creds, rng, rotated>>
    /\ UnchangedOthers
    /\ IF FindByIDAndUserID(id, userID) = {}
       THEN Return(p, "UpdateCredential", [id |-> id, userID |-> userID, input |-> input], ErrCredentialNotFound, NoVal)
       ELSE Goto(p, "UpdateCredential_Save",
                 [op |-> "UpdateCredential", req |-> [id |-> id, userID |-> userID, input |-> input],
                  credential |->
                    [creds[id] EXCEPT
                       !.PartnerName = IF input.PartnerName # ""
                                       THEN input.PartnerName ELSE @,
                       !.Environment = IF input.Environment # ""
                                       THEN input.Environment ELSE @,
                       !.CallbackURL = input.CallbackURL,
                       !.IPWhitelist = input.IPWhitelist]])

UpdateCredential_Save(p, outcome) ==
    /\ pc[p] = "UpdateCredential_Save"
    /\ UNCHANGED <<rng, rotated>>
    /\ UnchangedOthers
    /\ creds' = SaveTable(loc[p].credential, outcome)
    /\ IF SaveError(loc[p].credential, outcome) # NoError
       THEN Return(p, "UpdateCredential", loc[p].req, SaveError(loc[p].credential, outcome), NoVal)
       ELSE Return(p, "UpdateCredential", loc[p].req, NoError, ToResponse(loc[p].credential))

(***************************************************************************)
(* PartnerCredentialService.UpdatePublicKey                                *)
(***************************************************************************)
UpdatePublicKey_Find(p, id, userID, input) ==
    /\ pc[p] = Idle
    /\ UNCHANGED <<creds, rng, rotated>>
    /\ UnchangedOthers
    /\ IF FindByIDAndUserID(id, userID) = {}
       THEN Return(p, "UpdatePublicKey", [id |-> id, userID |-> userID, input |-> input], ErrCredentialNotFound, NoVal)
       ELSE IF ValidatePublicKey(input.PublicKey).err
       THEN Return(p, "UpdatePublicKey", [id |-> id, userID |-> userID, input |-> input], ErrInvalidPublicKey, NoVal)
       ELSE Goto(p, "UpdatePublicKey_Update",
                 [op |-> "UpdatePublicKey", req |-> [id |-> id, userID |-> userID, input |-> input], id |-> id, userID |-> userID,
                  publicKey |-> input.PublicKey,
                  fingerprint |-> ValidatePublicKey(input.PublicKey).fingerprint])

\* mutant: the statement writes the secret columns of the row as well
UpdatePublicKeyTable_SecretToo(id, userID, publicKey, fingerprint) ==
    [i \in CredIDs |->
        IF i \in FindByIDAndUserID(id, userID)
        THEN [creds[i] EXCEPT !.PublicKey = publicKey,
                              !.PublicKeyFingerprint = fingerprint,
                              !.PublicKeyAddedAt = <<now>>,
                              !.ClientSecret = GenSecret(0),
                              !.ClientSecretPrefix = SecretPrefix(GenSecret(0))]
        ELSE creds[i]]

\* PartnerCredentialRepository.UpdatePublicKey: an UPDATE of three columns of the
\* rows with this id and user_id that are not soft-deleted
UpdatePublicKeyTable(id, userID, publicKey, fingerprint) ==
    [i \in CredIDs |->
        IF i \in FindByIDAndUserID(id, userID)
        THEN [creds[i] EXCEPT !.PublicKey = publicKey,
                              !.PublicKeyFingerprint = fingerprint,
                              !.PublicKeyAddedAt = <<now>>]
        ELSE creds[i]]

\* repo.UpdatePublicKey: no matching row is no error
UpdatePublicKey_Update(p) ==
    /\ pc[p] = "UpdatePublicKey_Update"
    /\ UNCHANGED <<rng, rotated>>
    /\ UnchangedOthers
    /\ creds' = UpdatePublicKeyTable(loc[p].id, loc[p].userID, loc[p].publicKey, loc[p].fingerprint)
    /\ Goto(p, "UpdatePublicKey_Refresh", loc[p])

\* credential, _ = FindByIDAndUserID(id, userID); credential.ToResponse()
\* a nil credential makes ToResponse dereference a nil pointer
UpdatePublicKey_Refresh(p) ==
    /\ pc[p] = "UpdatePublicKey_Refresh"
    /\ UNCHANGED <<creds, rng, rotated>>
    /\ UnchangedOthers
    /\ IF FindByIDAndUserID(loc[p].id, loc[p].userID) = {}
       THEN Return(p, "UpdatePublicKey", loc[p].req, "panic: nil pointer dereference", NoVal)
       ELSE Return(p, "UpdatePublicKey", loc[p].req, NoError, ToResponse(creds[loc[p].id]))

(***************************************************************************)
(* PartnerCredentialService.DeleteCredential                               *)
(***************************************************************************)
DeleteCredential_Find(p, id, userID) ==
    /\ pc[p] = Idle
    /\ UNCHANGED <<creds, rng, rotated>>
    /\ UnchangedOthers
    /\ IF FindByIDAndUserID(id, userID) = {}
       THEN Return(p, "DeleteCredential", [id |-> id, userID |-> userID], ErrCredentialNotFound, NoVal)
       ELSE Goto(p, "DeleteCredential_Delete",
                 [op |-> "DeleteCredential", req |-> [id |-> id, userID |-> userID], id |-> id, userID |-> userID])

\* mutant: the statement is run Unscoped, and removes the row
DeleteTable_Unscoped(id, userID) ==
    [i \in CredIDs \ FindByIDAndUserID(id, userID) |-> creds[i]]

\* PartnerCredentialRepository.Delete: gorm's soft delete sets deleted_at
DeleteTable(id, userID) ==
    [i \in CredIDs |->
        IF i \in FindByIDAndUserID(id, userID)
        THEN [creds[i] EXCEPT !.DeletedAt = <<now>>]
        ELSE creds[i]]

DeleteCredential_Delete(p) ==
    /\ pc[p] = "DeleteCredential_Delete"
    /\ UNCHANGED <<rng, rotated>>
    /\ UnchangedOthers
    /\ creds' = DeleteTable(loc[p].id, loc[p].userID)
    /\ Return(p, "DeleteCredential", loc[p].req, NoError, NoVal)

(***************************************************************************)
(* PartnerCredentialService.RegenerateSecret                               *)
(***************************************************************************)
RegenerateSecret_Find(p, id, userID) ==
    /\ pc[p] = Idle
    /\ UNCHANGED <<creds, rotated>>
    /\ UnchangedOthers
    /\ IF FindByIDAndUserID(id, userID) = {}
       THEN /\ Return(p, "RegenerateSecret", [id |-> id, userID |-> userID], ErrCredentialNotFound, NoVal)
            /\ UNCHANGED rng
       ELSE /\ rng' = rng + 1
            /\ Goto(p, "RegenerateSecret_Save",
                    [op |-> "RegenerateSecret", req |-> [id |-> id, userID |-> userID],
                     credential |->
                       [creds[id] EXCEPT
                          !.ClientSecret = GenSecret(rng + 1),
                          !.ClientSecretPrefix = SecretPrefix(GenSecret(rng + 1))]])

RegenerateSecret_Save(p, outcome) ==
    /\ pc[p] = "RegenerateSecret_Save"
    /\ UNCHANGED rng
    /\ UnchangedOthers
    /\ creds' = SaveTable(loc[p].credential, outcome)
    /\ IF SaveError(loc[p].credential, outcome) # NoError
       THEN /\ Return(p, "RegenerateSecret", loc[p].req, SaveError(loc[p].credential, outcome), NoVal)
            /\ UNCHANGED rotated
       ELSE /\ Return(p, "RegenerateSecret", loc[p].req, NoError,
                      ToCreateResponse(loc[p].credential, loc[p].credential.ClientSecret))
            /\ rotated' = rotated \cup
                  {<<i, creds[i].ClientSecret>> : i \in
                      {j \in {loc[p].credential.ID} :
                          creds[j].ClientSecret # loc[p].credential.ClientSecret}}

(***************************************************************************)
(* PartnerCredentialService.ValidateCredential                             *)
(***************************************************************************)
\* mutant: a wrong secret for a known client ID is told apart from a lookup miss
ValidateCredentialResult_WrongSecretTold(clientID, clientSecret) ==
    IF FindByClientID(clientID) = {}
    THEN [err |-> ErrCredentialNotFound, id |-> <<>>]
    ELSE LET id == CHOOSE i \in FindByClientID(clientID) : TRUE
         IN IF creds[id].ClientSecret # clientSecret
            THEN [err |-> ErrInvalidCredentials, id |-> <<>>]
            ELSE [err |-> NoError, id |-> id]

\* what ValidateCredential returns in the current state: the error and the row ID
ValidateCredentialResult(clientID, clientSecret) ==
    IF FindByClientID(clientID) = {}
    THEN [err |-> ErrCredentialNotFound, id |-> <<>>]
    ELSE LET id == CHOOSE i \in FindByClientID(clientID) : TRUE
         IN IF creds[id].ClientSecret # clientSecret
            THEN [err |-> ErrCredentialNotFound, id |-> <<>>]
            ELSE [err |-> NoError, id |-> id]

ValidateCredential_Find(p, clientID, clientSecret) ==
    /\ pc[p] = Idle
    /\ UNCHANGED <<creds, rng, rotated>>
    /\ UnchangedOthers
    /\ IF ValidateCredentialResult(clientID, clientSecret).err # NoError
       THEN Return(p, "ValidateCredential", [clientID |-> clientID, clientSecret |-> clientSecret],
                   ValidateCredentialResult(clientID, clientSecret).err, NoVal)
       ELSE Goto(p, "ValidateCredential_UpdateLastUsed",
                 [op |-> "ValidateCredential", req |-> [clientID |-> clientID, clientSecret |-> clientSecret],
                  credential |-> creds[ValidateCredentialResult(clientID, clientSecret).id]])

\* the error of a database statement that fails (connection lost, timeout)
ErrDatabase == "database error"

\* mutant: the error of the last-used update is returned to the caller
UpdateLastUsedError_Returned(failed) == IF failed THEN ErrDatabase ELSE NoError

\* _ = s.repo.UpdateLastUsed(credential.ID): the error of the update is dropped
UpdateLastUsedError(failed) == NoError

\* PartnerCredentialRepository.UpdateLastUsed: a statement that fails writes nothing
UpdateLastUsed(id, failed) ==
    [i \in CredIDs |->
        IF i = id /\ Live(i) /\ ~failed
        THEN [creds[i] EXCEPT !.LastUsedAt = <<now>>]
        ELSE creds[i]]

ValidateCredential_UpdateLastUsed(p, failed) ==
    /\ pc[p] = "ValidateCredential_UpdateLastUsed"
    /\ UNCHANGED <<rng, rotated>>
    /\ UnchangedOthers
    /\ creds' = UpdateLastUsed(loc[p].credential.ID, failed)
    /\ Return(p, "ValidateCredential", loc[p].req, UpdateLastUsedError(failed),
              IF UpdateLastUsedError(failed) = NoError THEN loc[p].credential ELSE NoVal)

\* PartnerCredentialRepository.Deactivate: the row of this owner is made inactive
Deactivate(id, userID) ==
    /\ AllIdle
    /\ FindByIDAndUserID(id, userID) # {}
    /\ creds' = [i \in CredIDs |->
                    IF i = id /\ creds[i].UserID = userID /\ Live(i)
                    THEN [creds[i] EXCEPT !.IsActive = FALSE]
                    ELSE creds[i]]
    /\ UNCHANGED <<pc, loc, ret, rng, rotated>>
    /\ UnchangedOthers


(***************************************************************************)
(* Initial state: empty tables, no request in progress                     *)
(***************************************************************************)
JWTSecret == "default-secret-change-me"

DefaultExpiryHours == 24

InitTables ==
    /\ creds = [i \in {} |-> NoVal]
    /\ apiKeys = [i \in {} |-> NoVal]
    /\ users = [i \in {} |-> NoVal]
    /\ pc = [p \in Procs |-> Idle]
    /\ loc = [p \in Procs |-> NoLoc]
    /\ ret = [p \in Procs |-> NoRet]
    /\ rng = 0
    /\ rotated = {}
    /\ now = 0
    /\ issued = {}

\* config.Load() with JWT_EXPIRY_HOURS unset
Init ==
    /\ InitTables
    /\ cfg = [JWTSecret |-> JWTSecret, JWTExpiryHours |-> DefaultExpiryHours]

(***************************************************************************)
(* Inputs of the partner credential requests                               *)
(***************************************************************************)
CreateCredentialInputs ==
    {[PartnerName |-> "acme", Environment |-> "", CallbackURL |-> "",
      IPWhitelist |-> <<>>, PublicKey |-> k] : k \in {EmptyKey, CertPEM}}

UpdateCredentialInputs ==
    {[PartnerName |-> "", Environment |-> "production",
      CallbackURL |-> "https://cb", IPWhitelist |-> <<"10.0.0.1">>]}

UpdatePublicKeyInputs == {[PublicKey |-> k] : k \in {Pkix2PEM, JunkPEM}}

\* the client ID of the next draw: 116 random bits, taken never to repeat
FreshClientID == <<"BAS", rng + 1>>

\* row IDs a request may name: the stored ones and one that is not stored
CredIDInputs == CredIDs \cup {<<"u1", 0>>}
ClientIDInputs == {creds[i].ClientID : i \in CredIDs} \cup {<<"BAS", 0>>}
SecretInputs == {GenSecret(n) : n \in 0..rng}

(***************************************************************************)
(* Spec: the life of a client secret (CreateCredential, RegenerateSecret,  *)
(* ValidateCredential, DeleteCredential), one request at a time            *)
(***************************************************************************)
RowsOf(userID) == {i \in CredIDs : creds[i].UserID = userID}

RowBound(userID, max) == IF userID = "u1" THEN max ELSE MaxOtherRows

CreateCredentialStart(p) ==
    /\ rng < MaxDraws
    /\ \E userID \in Users, input \in CreateCredentialInputs :
          /\ Cardinality(RowsOf(userID)) < RowBound(userID, MaxCredRows)
          /\ CreateCredential_Count(p, userID, input, FreshClientID)

UpdateCredentialStart(p) ==
    \E id \in CredIDInputs, userID \in Users, input \in UpdateCredentialInputs :
        UpdateCredential_Find(p, id, userID, input)

UpdatePublicKeyStart(p) ==
    \E id \in CredIDInputs, userID \in Users, input \in UpdatePublicKeyInputs :
        UpdatePublicKey_Find(p, id, userID, input)

DeleteCredentialStart(p) ==
    \E id \in CredIDInputs, userID \in Users : DeleteCredential_Find(p, id, userID)

RegenerateSecretStart(p) ==
    /\ rng < MaxDraws
    /\ \E id \in CredIDInputs, userID \in Users : RegenerateSecret_Find(p, id, userID)

ValidateCredentialStart(p) ==
    \E clientID \in ClientIDInputs, clientSecret \in SecretInputs :
        ValidateCredential_Find(p, clientID, clientSecret)

UpdateCredentialSave(p) == \E outcome \in SaveOutcomes : UpdateCredential_Save(p, outcome)

RegenerateSecretSave(p) == \E outcome \in SaveOutcomes : RegenerateSecret_Save(p, outcome)

ValidateCredentialUpdateLastUsed(p) ==
    \E failed \in BOOLEAN : ValidateCredential_UpdateLastUsed(p, failed)

\* the handler that serves the requests when they arrive one after the other
Serial == {"p1"}

Next ==
    \E p \in Serial :
        \/ CreateCredentialStart(p)
        \/ CreateCredential_Insert(p)
        \/ DeleteCredentialStart(p)
        \/ DeleteCredential_Delete(p)
        \/ RegenerateSecretStart(p)
        \/ RegenerateSecretSave(p)
        \/ ValidateCredentialStart(p)
        \/ ValidateCredentialUpdateLastUsed(p)

Spec == Init /\ [][Next]_vars

(***************************************************************************)
(* SpecRotation: RegenerateSecret, UpdateCredential and UpdatePublicKey    *)
(* requests on the same credential handled concurrently                    *)
(***************************************************************************)
MaxRotationRows == 1

RotationCreateStart(p) ==
    /\ Cardinality(CredIDs) < MaxRotationRows
    /\ rng < MaxDraws
    /\ AllIdle
    /\ \E input \in CreateCredentialInputs :
          CreateCredential_Count(p, "u1", input, FreshClientID)

NextRotation ==
    \E p \in Procs :
        \/ RotationCreateStart(p)
        \/ CreateCredential_Insert(p)
        \/ UpdateCredentialStart(p)
        \/ UpdateCredentialSave(p)
        \/ UpdatePublicKeyStart(p)
        \/ UpdatePublicKey_Update(p)
        \/ UpdatePublicKey_Refresh(p)
        \/ RegenerateSecretStart(p)
        \/ RegenerateSecretSave(p)

SpecRotation == Init /\ [][NextRotation]_vars


(***************************************************************************)
(* SpecQuota: CreateCredential requests handled concurrently;              *)
(* SpecQuotaSerial: CreateCredential and DeleteCredential one at a time    *)
(***************************************************************************)
QuotaInputs ==
    {[PartnerName |-> "acme", Environment |-> "", CallbackURL |-> "",
      IPWhitelist |-> <<>>, PublicKey |-> EmptyKey]}

QuotaCreateStart(p) ==
    \E userID \in Users, input \in QuotaInputs :
        /\ Cardinality(RowsOf(userID)) < RowBound(userID, MaxQuotaRows)
        /\ CreateCredential_Count(p, userID, input, FreshClientID)

\* a principal deletes one of its own credentials, stored or already deleted
QuotaDeleteStart(p) ==
    \E id \in CredIDs : DeleteCredential_Find(p, id, creds[id].UserID)

QuotaStep(p) ==
    \/ QuotaCreateStart(p)
    \/ CreateCredential_Insert(p)
    \/ QuotaDeleteStart(p)
    \/ DeleteCredential_Delete(p)

NextQuota ==
    \E p \in Procs :
        \/ QuotaCreateStart(p)
        \/ CreateCredential_Insert(p)

SpecQuota == Init /\ [][NextQuota]_vars

NextQuotaSerial == \E p \in Serial : QuotaStep(p)

SpecQuotaSerial == Init /\ [][NextQuotaSerial]_vars

(***************************************************************************)
(* models / repository: api_keys                                           *)
(***************************************************************************)
MaxAPIKeysPerUser == 10

KeyIDs == DOMAIN apiKeys
KeyRowsOf(userID) == {i \in KeyIDs : apiKeys[i].UserID = userID}

\* uuid.New() in BeforeCreate: the k-th key of a user has row ID <<user, k>>
NewKeyID(userID) == <<userID, Cardinality(KeyRowsOf(userID)) + 1>>

\* GenerateAPIKey: "bas_" and 64 hex characters of 32 random bytes, kept as
\* <<"bas_", first 8 hex characters, the rest>>; the draw for a new row is named
\* after the row it is made for
GenerateAPIKey(id) == <<"bas_", id[2] % HeadSpace, id>>

\* prefix := fullKey[:12]
KeyPrefix(fullKey) == <<fullKey[1], fullKey[2]>>

\* bcrypt.GenerateFromPassword: one-way, nothing in the model inverts it
\* mutant: the text is stored as it is
BcryptHash_Plaintext(text) == text

BcryptHash(text) == [bcrypt |-> text]

\* APIKeyRepository.FindByID: the set of matching rows
KeyFindByID(id) == {i \in KeyIDs : i = id /\ apiKeys[i].DeletedAt = <<>>}

\* APIKeyRepository.CountByUserID
KeyCountByUserID(userID) ==
    Cardinality({i \in KeyIDs : apiKeys[i].UserID = userID /\ apiKeys[i].IsActive
                                  /\ apiKeys[i].DeletedAt = <<>>})

\* APIKey.ToResponse
KeyToResponse(k) ==
    [ID |-> k.ID, Name |-> k.Name, KeyPrefix |-> k.KeyPrefix,
     Environment |-> k.Environment, IsActive |-> k.IsActive,
     LastUsedAt |-> k.LastUsedAt]

UnchangedPartner == UNCHANGED <<creds, rng, rotated, users, now, cfg, issued>>

\* mutant: the limit is compared with > instead of >=
KeyLimitReached_OffByOne(count) == count > MaxAPIKeysPerUser

\* if count >= MaxAPIKeysPerUser
KeyLimitReached(count) == count >= MaxAPIKeysPerUser

(***************************************************************************)
(* APIKeyService.CreateKey                                                 *)
(***************************************************************************)
CreateKey_Count(p, userID, input) ==
    /\ pc[p] = Idle
    /\ UNCHANGED apiKeys
    /\ UnchangedPartner
    /\ IF KeyLimitReached(KeyCountByUserID(userID))
       THEN Return(p, "CreateKey", [userID |-> userID, input |-> input],
                   ErrMaxKeysReached, NoVal)
       ELSE Goto(p, "CreateKey_Insert",
                 [op |-> "CreateKey", req |-> [userID |-> userID, input |-> input]])

\* GenerateAPIKey, bcrypt, keyRepo.Create
CreateKey_Insert(p) ==
    /\ pc[p] = "CreateKey_Insert"
    /\ UnchangedPartner
    /\ LET id == NewKeyID(loc[p].req.userID)
           fullKey == GenerateAPIKey(id)
           apiKey == [ID |-> id,
                      UserID |-> loc[p].req.userID,
                      Name |-> loc[p].req.input.Name,
                      KeyPrefix |-> KeyPrefix(fullKey),
                      KeyHash |-> BcryptHash(fullKey),
                      Environment |-> loc[p].req.input.Environment,
                      IsActive |-> TRUE,
                      LastUsedAt |-> <<>>,
                      DeletedAt |-> <<>>]
       IN /\ apiKeys' = [i \in KeyIDs \cup {id} |-> IF i = id THEN apiKey ELSE apiKeys[i]]
          /\ Return(p, "CreateKey", loc[p].req, NoError,
                    [Response |-> KeyToResponse(apiKey), Key |-> fullKey])

(***************************************************************************)
(* APIKeyService.ListKeys                                                  *)
(***************************************************************************)
\* APIKeyRepository.FindByUserID: the active keys of the user
KeyFindByUserID(userID) ==
    {i \in KeyIDs : /\ apiKeys[i].UserID = userID
                     /\ apiKeys[i].IsActive
                     /\ apiKeys[i].DeletedAt = <<>>}

\* FindByUserID (newest first), then ToResponse of each row
ListKeys(p, userID) ==
    /\ pc[p] = Idle
    /\ UNCHANGED apiKeys
    /\ UnchangedPartner
    /\ Return(p, "ListKeys", [userID |-> userID], NoError,
              [Items |-> [k \in 1..Cardinality(KeyFindByUserID(userID)) |->
                            KeyToResponse(apiKeys[NewestFirst(KeyFindByUserID(userID))[k]])]])

(***************************************************************************)
(* APIKeyService.RevokeKey                                                 *)
(***************************************************************************)
RevokeKey_Find(p, keyID, userID) ==
    /\ pc[p] = Idle
    /\ UNCHANGED apiKeys
    /\ UnchangedPartner
    /\ IF KeyFindByID(keyID) = {}
       THEN Return(p, "RevokeKey", [keyID |-> keyID, userID |-> userID],
                   ErrKeyNotFound, NoVal)
       ELSE IF apiKeys[keyID].UserID # userID
       THEN Return(p, "RevokeKey", [keyID |-> keyID, userID |-> userID],
                   ErrKeyNotFound, NoVal)
       ELSE Goto(p, "RevokeKey_Revoke",
                 [op |-> "RevokeKey", req |-> [keyID |-> keyID, userID |-> userID]])

\* APIKeyRepository.Revoke: UPDATE is_active = false WHERE id AND user_id
RevokeKey_Revoke(p) ==
    /\ pc[p] = "RevokeKey_Revoke"
    /\ UnchangedPartner
    /\ apiKeys' = [i \in KeyIDs |->
                      IF /\ i = loc[p].req.keyID
                         /\ apiKeys[i].UserID = loc[p].req.userID
                         /\ apiKeys[i].DeletedAt = <<>>
                      THEN [apiKeys[i] EXCEPT !.IsActive = FALSE]
                      ELSE apiKeys[i]]
    /\ Return(p, "RevokeKey", loc[p].req, NoError, NoVal)

(***************************************************************************)
(* SpecKeys: CreateKey and RevokeKey, each run to completion before the    *)
(* next starts                                                             *)
(***************************************************************************)
CreateKeyInputs == {[Name |-> "ci", Environment |-> "sandbox"]}

\* a request may name the oldest keys of each principal or a key that is not stored
KeyIDInputs == {i \in KeyIDs : i[2] <= MaxRevocable} \cup {<<"u1", 0>>}

CreateKeyStart(p) ==
    \E userID \in Users, input \in CreateKeyInputs :
        /\ Cardinality(KeyRowsOf(userID)) < RowBound(userID, MaxKeyRows)
        /\ CreateKey_Count(p, userID, input)

RevokeKeyStart(p) ==
    \E keyID \in KeyIDInputs, userID \in Users : RevokeKey_Find(p, keyID, userID)

NextKeys ==
    \E p \in Serial :
        \/ CreateKeyStart(p)
        \/ CreateKey_Insert(p)
        \/ RevokeKeyStart(p)
        \/ RevokeKey_Revoke(p)

SpecKeys == Init /\ [][NextKeys]_vars

(***************************************************************************)
(* Tokens.  A compact JWT is kept as what jwt.Parse reads from it:         *)
(*   segments - how many dot-separated parts the string has                *)
(*   alg      - the "alg" of its header                                    *)
(*   sig      - how its signature was made: the method and the key         *)
(*   sub, email, type - claims, [t |-> JSON type, s |-> text]              *)
(*   exp, iat - claims, <<>> when absent, <<n>> for the number n           *)
(* HS256 signing is deterministic, so two tokens with the same header,     *)
(* claims and key are the same string.                                     *)
(***************************************************************************)
Absent == [t |-> "absent", s |-> ""]
Str(text) == [t |-> "string", s |-> text]

HMACMethods == {"HS256", "HS384", "HS512"}
RSAMethods == {"RS256", "PS256"}
SigningMethods == HMACMethods \cup RSAMethods \cup {"ES256", "EdDSA", "none"}

\* the value a Keyfunc returns, with its Go type
BytesKey(secret) == [type |-> "[]byte", v |-> secret]

\* token.SignedString(key)
Sign(method, key) == [method |-> method, key |-> key]

\* mutant: the "none" method verifies with whatever key the Keyfunc returned
MethodVerify_NoneAllowed(alg, sig, key) ==
    IF alg \in HMACMethods
    THEN key.type = "[]byte" /\ sig = Sign(alg, key)
    ELSE alg = "none" /\ sig.method = "none"

\* token.Method.Verify(signingString, signature, key) of golang-jwt v5: each
\* method asserts the Go type of the key before it looks at the signature
MethodVerify(alg, sig, key) ==
    IF alg \in HMACMethods
    THEN key.type = "[]byte" /\ sig = Sign(alg, key)
    ELSE IF alg \in RSAMethods
    THEN key.type = "*rsa.PublicKey" /\ sig = Sign(alg, key)
    ELSE IF alg = "ES256"
    THEN key.type = "*ecdsa.PublicKey" /\ sig = Sign(alg, key)
    ELSE IF alg = "EdDSA"
    THEN key.type = "ed25519.PublicKey" /\ sig = Sign(alg, key)
    ELSE key.type = "unsafeAllowNoneSignatureType" /\ sig.method = "none"

\* mutant: the validator runs with a leeway of two seconds
NotExpired_Leeway(token, t) == token.exp = <<>> \/ t < token.exp[1] + 2

\* the exp check of jwt.Parse's validator: no exp claim passes, otherwise now < exp
NotExpired(token, t) == token.exp = <<>> \/ t < token.exp[1]

\* jwt.Parse(tokenString, keyFunc): TRUE when err == nil && token.Valid.
\* keyFunc is [err |-> the Keyfunc failed, key |-> the key it returned]
JwtParse(token, keyFunc) ==
    /\ token.segments = 3
    /\ token.alg \in SigningMethods
    /\ ~keyFunc.err
    /\ MethodVerify(token.alg, token.sig, keyFunc.key)
    /\ NotExpired(token, now)

\* the Keyfunc of the JWTAuth middleware: HMAC methods only
JWTAuthKeyFunc(token, secret) ==
    [err |-> token.alg \notin HMACMethods, key |-> BytesKey(secret)]

\* the Keyfunc of AuthService.RefreshToken: the secret, whatever the method
RefreshKeyFunc(token) == [err |-> FALSE, key |-> BytesKey(cfg.JWTSecret)]

\* uuid.Parse: the strings that are UUIDs.  Besides the canonical form that
\* UUID.String() writes, it reads upper-case digits and the urn:uuid: prefix.
UUIDStrings == Users \cup {"U1", "urn:uuid:u1"}

\* uuid.Parse: the UUID a string denotes
UUIDParse(text) == IF text \in {"U1", "urn:uuid:u1"} THEN "u1" ELSE text

\* mutant: the scheme word is compared as it was sent
ToLower_AsSent(word) == word

\* strings.ToLower on the scheme words used
ToLower(word) ==
    IF word \in {"Bearer", "BEARER", "bearer"} THEN "bearer"
    ELSE IF word \in {"Basic", "basic"} THEN "basic"
    ELSE word

(***************************************************************************)
(* middleware.JWTAuth.  The Authorization header is kept as the sequence   *)
(* of its space-separated fields; the empty header has none.               *)
(***************************************************************************)
Unauthorized(message) == [status |-> 401, message |-> message, userID |-> "", email |-> Absent]

JWTAuthResult(authHeader) ==
    IF authHeader = <<>> THEN Unauthorized("Missing authorization header")
    ELSE IF Len(authHeader) # 2 \/ ToLower(authHeader[1]) # "bearer"
    THEN Unauthorized("Invalid authorization header format")
    ELSE LET token == authHeader[2] IN
        IF ~JwtParse(token, JWTAuthKeyFunc(token, cfg.JWTSecret))
        THEN Unauthorized("Invalid or expired token")
        ELSE IF token.type # Str("access") THEN Unauthorized("Invalid token type")
        ELSE IF token.sub.t # "string" THEN Unauthorized("Invalid user ID in token")
        ELSE IF token.sub.s \notin UUIDStrings THEN Unauthorized("Invalid user ID format")
        ELSE [status |-> 200, message |-> "next", userID |-> UUIDParse(token.sub.s),
              email |-> token.email]

(***************************************************************************)
(* AuthService                                                             *)
(***************************************************************************)
UserIDs == DOMAIN users

\* UserRepository.FindByID
UserFindByID(id) == {i \in UserIDs : i = id /\ users[i].DeletedAt = <<>>}

\* UserRepository.FindByEmail
UserFindByEmail(email) == {i \in UserIDs : users[i].Email = email /\ users[i].DeletedAt = <<>>}

\* UserRepository.EmailExists
EmailExists(email) == UserFindByEmail(email) # {}

\* User.ToResponse
UserToResponse(u) ==
    [ID |-> u.ID, Email |-> u.Email, FullName |-> u.FullName,
     JobTitle |-> u.JobTitle, Company |-> u.Company,
     Provider |-> u.Provider, IsVerified |-> u.IsVerified]

SecondsPerHour == 3600
RefreshFactor == 7

\* the four readings of the clock generateAuthResponse takes, in the order of the
\* code: for the access expiry, for the refresh expiry, for the access token's iat,
\* for the refresh token's iat; the second may change between two readings
ClockReadings(t0) ==
    {t \in [accessExpiry : {t0, t0 + 1}, refreshExpiry : {t0, t0 + 1},
            accessIat : {t0, t0 + 1}, refreshIat : {t0, t0 + 1}] :
        /\ t.accessExpiry <= t.refreshExpiry
        /\ t.refreshExpiry <= t.accessIat
        /\ t.accessIat <= t.refreshIat}

\* AuthService.generateAuthResponse with the clock readings t
GenerateAuthResponseAt(user, t) ==
    [AccessToken |->
        [segments |-> 3, alg |-> "HS256", sig |-> Sign("HS256", BytesKey(cfg.JWTSecret)),
         sub |-> Str(user.ID), email |-> Str(user.Email), type |-> Str("access"),
         exp |-> <<t.accessExpiry + cfg.JWTExpiryHours * SecondsPerHour>>,
         iat |-> <<t.accessIat>>],
     RefreshToken |->
        [segments |-> 3, alg |-> "HS256", sig |-> Sign("HS256", BytesKey(cfg.JWTSecret)),
         sub |-> Str(user.ID), email |-> Absent, type |-> Str("refresh"),
         exp |-> <<t.refreshExpiry + cfg.JWTExpiryHours * RefreshFactor * SecondsPerHour>>,
         iat |-> <<t.refreshIat>>],
     ExpiresIn |-> cfg.JWTExpiryHours * SecondsPerHour,
     User |-> UserToResponse(user)]

\* mutant: the refresh token is given the type "access"
GenerateAuthResponse_SameType(user) ==
    [AccessToken |->
        [segments |-> 3, alg |-> "HS256", sig |-> Sign("HS256", BytesKey(cfg.JWTSecret)),
         sub |-> Str(user.ID), email |-> Str(user.Email), type |-> Str("access"),
         exp |-> <<now + cfg.JWTExpiryHours * SecondsPerHour>>, iat |-> <<now>>],
     RefreshToken |->
        [segments |-> 3, alg |-> "HS256", sig |-> Sign("HS256", BytesKey(cfg.JWTSecret)),
         sub |-> Str(user.ID), email |-> Absent, type |-> Str("access"),
         exp |-> <<now + cfg.JWTExpiryHours * RefreshFactor * SecondsPerHour>>,
         iat |-> <<now>>],
     ExpiresIn |-> cfg.JWTExpiryHours * SecondsPerHour,
     User |-> UserToResponse(user)]

\* AuthService.generateAuthResponse; its readings of time.Now() fall in one second
GenerateAuthResponse(user) ==
    [AccessToken |->
        [segments |-> 3, alg |-> "HS256", sig |-> Sign("HS256", BytesKey(cfg.JWTSecret)),
         sub |-> Str(user.ID), email |-> Str(user.Email), type |-> Str("access"),
         exp |-> <<now + cfg.JWTExpiryHours * SecondsPerHour>>, iat |-> <<now>>],
     RefreshToken |->
        [segments |-> 3, alg |-> "HS256", sig |-> Sign("HS256", BytesKey(cfg.JWTSecret)),
         sub |-> Str(user.ID), email |-> Absent, type |-> Str("refresh"),
         exp |-> <<now + cfg.JWTExpiryHours * RefreshFactor * SecondsPerHour>>,
         iat |-> <<now>>],
     ExpiresIn |-> cfg.JWTExpiryHours * SecondsPerHour,
     User |-> UserToResponse(user)]

\* mutant: RefreshToken asks for the type the middleware asks for
RefreshTokenResult_AccessType(refreshToken) ==
    IF ~JwtParse(refreshToken, RefreshKeyFunc(refreshToken))
    THEN [err |-> ErrInvalidRefreshToken, val |-> NoVal]
    ELSE IF refreshToken.type # Str("access")
    THEN [err |-> ErrInvalidTokenType, val |-> NoVal]
    ELSE IF refreshToken.sub.t # "string"
    THEN [err |-> ErrInvalidUserID, val |-> NoVal]
    ELSE IF refreshToken.sub.s \notin UUIDStrings
    THEN [err |-> ErrInvalidUserIDFormat, val |-> NoVal]
    ELSE IF UserFindByID(UUIDParse(refreshToken.sub.s)) = {}
    THEN [err |-> ErrUserNotFound, val |-> NoVal]
    ELSE [err |-> NoError,
          val |-> GenerateAuthResponse(users[UUIDParse(refreshToken.sub.s)])]

\* mutant: a missing user is reported like a bad token
RefreshTokenResult_SameError(refreshToken) ==
    IF ~JwtParse(refreshToken, RefreshKeyFunc(refreshToken))
    THEN [err |-> ErrInvalidRefreshToken, val |-> NoVal]
    ELSE IF refreshToken.type # Str("refresh")
    THEN [err |-> ErrInvalidTokenType, val |-> NoVal]
    ELSE IF refreshToken.sub.t # "string"
    THEN [err |-> ErrInvalidUserID, val |-> NoVal]
    ELSE IF refreshToken.sub.s \notin UUIDStrings
    THEN [err |-> ErrInvalidUserIDFormat, val |-> NoVal]
    ELSE IF UserFindByID(UUIDParse(refreshToken.sub.s)) = {}
    THEN [err |-> ErrInvalidRefreshToken, val |-> NoVal]
    ELSE [err |-> NoError,
          val |-> GenerateAuthResponse(users[UUIDParse(refreshToken.sub.s)])]

\* AuthService.RefreshToken: the error and, without one, the response
RefreshTokenResult(refreshToken) ==
    IF ~JwtParse(refreshToken, RefreshKeyFunc(refreshToken))
    THEN [err |-> ErrInvalidRefreshToken, val |-> NoVal]
    ELSE IF refreshToken.type # Str("refresh")
    THEN [err |-> ErrInvalidTokenType, val |-> NoVal]
    ELSE IF refreshToken.sub.t # "string"
    THEN [err |-> ErrInvalidUserID, val |-> NoVal]
    ELSE IF refreshToken.sub.s \notin UUIDStrings
    THEN [err |-> ErrInvalidUserIDFormat, val |-> NoVal]
    ELSE IF UserFindByID(UUIDParse(refreshToken.sub.s)) = {}
    THEN [err |-> ErrUserNotFound, val |-> NoVal]
    ELSE [err |-> NoError,
          val |-> GenerateAuthResponse(users[UUIDParse(refreshToken.sub.s)])]

UnchangedStores == UNCHANGED <<creds, apiKeys, rng, rotated, cfg>>

\* the token pair of a response joins the pairs handed out so far
Issue(response) ==
    issued' = issued \cup {[AccessToken |-> response.AccessToken,
                            RefreshToken |-> response.RefreshToken]}

\* Register: userRepo.EmailExists
Register_EmailExists(p, input) ==
    /\ pc[p] = Idle
    /\ UnchangedStores
    /\ UNCHANGED <<users, now, issued>>
    /\ IF EmailExists(input.Email)
       THEN Return(p, "Register", input, ErrEmailExists, NoVal)
       ELSE Goto(p, "Register_Create", [op |-> "Register", req |-> input])

\* without the unique index on users.email
EmailIndexed_None(email) == FALSE

\* the uniqueIndex tag of User.Email: the index covers every row of the table
EmailIndexed(email) == \E i \in UserIDs : users[i].Email = email

\* uuid.New() in BeforeCreate: a user ID no row has
NewUserID == CHOOSE u \in Users : u \notin UserIDs

\* Register: bcrypt, userRepo.Create (the unique index on email rejects a duplicate),
\* generateAuthResponse
Register_Create(p) ==
    /\ pc[p] = "Register_Create"
    /\ UnchangedStores
    /\ UNCHANGED now
    /\ LET user == [ID |-> NewUserID, Email |-> loc[p].req.Email,
                    PasswordHash |-> BcryptHash(loc[p].req.Password),
                    FullName |-> loc[p].req.FullName, JobTitle |-> "", Company |-> "",
                    Provider |-> "local", ProviderID |-> "", IsVerified |-> FALSE,
                    DeletedAt |-> <<>>]
       IN IF EmailIndexed(user.Email)
          THEN /\ UNCHANGED <<users, issued>>
               /\ Return(p, "Register", loc[p].req, ErrDuplicateKey, NoVal)
          ELSE /\ users' = [i \in UserIDs \cup {user.ID} |->
                              IF i = user.ID THEN user ELSE users[i]]
               /\ Issue(GenerateAuthResponse(user))
               /\ Return(p, "Register", loc[p].req, NoError, GenerateAuthResponse(user))

\* the PasswordHash column of a user created without a password
EmptyHash == [empty |-> TRUE]

\* mutant: an account without a password hash accepts any password
CompareHashAndPassword_EmptyMatches(hash, password) ==
    IF hash = EmptyHash THEN TRUE ELSE hash = BcryptHash(password)

\* bcrypt.CompareHashAndPassword: TRUE when it returns nil; a hash shorter than a
\* bcrypt hash is ErrHashTooShort whatever the password
CompareHashAndPassword(hash, password) ==
    IF hash = EmptyHash THEN FALSE ELSE hash = BcryptHash(password)

\* Login: userRepo.FindByEmail, bcrypt.CompareHashAndPassword, generateAuthResponse
Login(p, input) ==
    /\ pc[p] = Idle
    /\ UnchangedStores
    /\ UNCHANGED <<users, now>>
    /\ IF UserFindByEmail(input.Email) = {}
       THEN /\ Return(p, "Login", input, ErrInvalidCredentials, NoVal)
            /\ UNCHANGED issued
       ELSE LET user == users[CHOOSE i \in UserFindByEmail(input.Email) : TRUE] IN
            IF ~CompareHashAndPassword(user.PasswordHash, input.Password)
            THEN /\ Return(p, "Login", input, ErrInvalidCredentials, NoVal)
                 /\ UNCHANGED issued
            ELSE /\ Return(p, "Login", input, NoError, GenerateAuthResponse(user))
                 /\ Issue(GenerateAuthResponse(user))

\* UserRepository.FindByProvider
UserFindByProvider(provider, providerID) ==
    {i \in UserIDs : /\ users[i].Provider = provider
                     /\ users[i].ProviderID = providerID
                     /\ users[i].DeletedAt = <<>>}

\* AuthService.GoogleAuth: the user known by the provider ID, or else the user
\* with the email, linked to the provider by userRepo.Update, or else a new user
\* without a password hash; then generateAuthResponse
GoogleAuth(p, email, fullName, providerID) ==
    /\ pc[p] = Idle
    /\ UnchangedStores
    /\ UNCHANGED now
    /\ LET req == [email |-> email, fullName |-> fullName, providerID |-> providerID]
           known == UserFindByProvider("google", providerID)
           existing == UserFindByEmail(email)
           created == [ID |-> NewUserID, Email |-> email, PasswordHash |-> EmptyHash,
                       FullName |-> fullName, JobTitle |-> "", Company |-> "",
                       Provider |-> "google", ProviderID |-> providerID,
                       IsVerified |-> TRUE, DeletedAt |-> <<>>]
       IN IF known # {}
          THEN LET user == users[CHOOSE i \in known : TRUE]
               IN /\ UNCHANGED users
                  /\ Issue(GenerateAuthResponse(user))
                  /\ Return(p, "GoogleAuth", req, NoError, GenerateAuthResponse(user))
          ELSE IF existing # {}
          THEN LET user == [users[CHOOSE i \in existing : TRUE] EXCEPT
                               !.Provider = "google", !.ProviderID = providerID]
               IN /\ users' = [users EXCEPT ![user.ID] = user]
                  /\ Issue(GenerateAuthResponse(user))
                  /\ Return(p, "GoogleAuth", req, NoError, GenerateAuthResponse(user))
          ELSE IF EmailIndexed(email)
          THEN /\ UNCHANGED <<users, issued>>
               /\ Return(p, "GoogleAuth", req, ErrDuplicateKey, NoVal)
          ELSE /\ users' = [i \in UserIDs \cup {created.ID} |->
                              IF i = created.ID THEN created ELSE users[i]]
               /\ Issue(GenerateAuthResponse(created))
               /\ Return(p, "GoogleAuth", req, NoError, GenerateAuthResponse(created))

\* AuthService.RefreshToken
RefreshToken(p, refreshToken) ==
    /\ pc[p] = Idle
    /\ UnchangedStores
    /\ UNCHANGED <<users, now>>
    /\ Return(p, "RefreshToken", refreshToken,
              RefreshTokenResult(refreshToken).err, RefreshTokenResult(refreshToken).val)
    /\ IF RefreshTokenResult(refreshToken).err = NoError
       THEN Issue(RefreshTokenResult(refreshToken).val)
       ELSE UNCHANGED issued

\* a request passes through the JWTAuth middleware
JWTAuth(p, authHeader) ==
    /\ pc[p] = Idle
    /\ UnchangedStores
    /\ UNCHANGED <<users, now, issued>>
    /\ Return(p, "JWTAuth", authHeader,
              IF JWTAuthResult(authHeader).status = 200 THEN NoError ELSE "Unauthorized",
              JWTAuthResult(authHeader))

(***************************************************************************)
(* UserService                                                             *)
(***************************************************************************)
ErrRecordNotFound == "record not found"

\* UserService.GetProfile
GetProfile(p, userID) ==
    /\ pc[p] = Idle
    /\ UnchangedStores
    /\ UNCHANGED <<users, now, issued>>
    /\ IF UserFindByID(userID) = {}
       THEN Return(p, "GetProfile", [userID |-> userID], ErrRecordNotFound, NoVal)
       ELSE Return(p, "GetProfile", [userID |-> userID], NoError,
                   UserToResponse(users[userID]))

\* UpdateProfile: userRepo.FindByID, then the non-empty fields of the input
UpdateProfile_Find(p, userID, input) ==
    /\ pc[p] = Idle
    /\ UnchangedStores
    /\ UNCHANGED <<users, now, issued>>
    /\ IF UserFindByID(userID) = {}
       THEN Return(p, "UpdateProfile", [userID |-> userID, input |-> input],
                   ErrRecordNotFound, NoVal)
       ELSE Goto(p, "UpdateProfile_Save",
                 [op |-> "UpdateProfile", req |-> [userID |-> userID, input |-> input],
                  user |->
                    [users[userID] EXCEPT
                       !.FullName = IF input.FullName # "" THEN input.FullName ELSE @,
                       !.JobTitle = IF input.JobTitle # "" THEN input.JobTitle ELSE @,
                       !.Company = IF input.Company # "" THEN input.Company ELSE @]])

\* mutant: the repository call made is Delete, which sets deleted_at
UserSaveTable_Deletes(user, outcome) ==
    [users EXCEPT ![user.ID] = [user EXCEPT !.DeletedAt = <<now>>]]

\* UserRepository.Update: db.Save(user), the table after the call (see SaveTable)
UserSaveTable(user, outcome) ==
    IF UserFindByID(user.ID) # {} \/ outcome = "upsert"
    THEN [users EXCEPT ![user.ID] = user]
    ELSE users

\* UserRepository.Update: its error
UserSaveError(user, outcome) ==
    IF UserFindByID(user.ID) # {} \/ outcome = "upsert" THEN NoError ELSE ErrDuplicateKey

\* UpdateProfile: userRepo.Update(user), user.ToResponse()
UpdateProfile_Save(p, outcome) ==
    /\ pc[p] = "UpdateProfile_Save"
    /\ UnchangedStores
    /\ UNCHANGED <<now, issued>>
    /\ users' = UserSaveTable(loc[p].user, outcome)
    /\ IF UserSaveError(loc[p].user, outcome) # NoError
       THEN Return(p, "UpdateProfile", loc[p].req, UserSaveError(loc[p].user, outcome), NoVal)
       ELSE Return(p, "UpdateProfile", loc[p].req, NoError, UserToResponse(loc[p].user))

\* time passes, up to instant t
Tick(t) ==
    /\ t > now
    /\ now' = t
    /\ UNCHANGED <<creds, apiKeys, users, pc, loc, ret, rng, rotated, cfg, issued>>

(***************************************************************************)
(* The token service on its own: registration, login, refresh, the         *)
(* middleware and the clock, one request at a time.                        *)
(***************************************************************************)
\* config.Load() with JWT_EXPIRY_HOURS set to a positive number of hours
InitAuth ==
    /\ InitTables
    /\ cfg \in [JWTSecret : {JWTSecret}, JWTExpiryHours : 1..MaxExpiryHours]

Emails == {"a@b.com"}
RegisterInputs == [Email : Emails, Password : {"pw"}, FullName : {"n"}]
LoginInputs == [Email : {"a@b.com"}, Password : {"pw", "bad"}]

IssuedTokens ==
    {pair.AccessToken : pair \in issued} \cup {pair.RefreshToken : pair \in issued}

\* tokens nobody issued: a refresh token for u1 without expiry, one field changed
Template ==
    [segments |-> 3, alg |-> "HS256", sig |-> Sign("HS256", BytesKey(JWTSecret)),
     sub |-> Str("u1"), email |-> Absent, type |-> Str("refresh"),
     exp |-> <<>>, iat |-> <<0>>]
NoneToken == [Template EXCEPT !.alg = "none", !.sig = Sign("none", BytesKey(""))]
RS256Token ==
    [Template EXCEPT !.alg = "RS256",
                     !.sig = Sign("RS256", [type |-> "*rsa.PrivateKey", v |-> "theirs"])]
BadSubToken == [Template EXCEPT !.sub = Str("not-a-uuid")]
TwoSegments == [Template EXCEPT !.segments = 2]
\* the second user ID is never given out: RegisterInputs has one email address
UnknownUserToken == [Template EXCEPT !.sub = Str("u2")]
Forged == {NoneToken, RS256Token, BadSubToken, TwoSegments, UnknownUserToken}

PresentedTokens == IssuedTokens \cup Forged
PresentedHeaders ==
    {<<"Bearer", token>> : token \in PresentedTokens}
        \cup {<<>>, <<"Bearer">>, <<"Basic", Template>>}

\* the instants the clock is moved to: just around the expiry of what time 0 minted
Instants ==
    {k * cfg.JWTExpiryHours * SecondsPerHour + d : k \in {1, RefreshFactor},
                                                  d \in {-1, 0, 1}}

CanIssue == Cardinality(issued) < MaxIssued

RegisterStart(p) ==
    /\ CanIssue
    /\ UserIDs # Users
    /\ \E input \in RegisterInputs : Register_EmailExists(p, input)
LoginStart(p) == CanIssue /\ \E input \in LoginInputs : Login(p, input)
RefreshTokenStart(p) ==
    \E token \in PresentedTokens :
        /\ CanIssue \/ RefreshTokenResult(token).err # NoError
        /\ RefreshToken(p, token)
JWTAuthStart(p) == \E authHeader \in PresentedHeaders : JWTAuth(p, authHeader)
TickStart == \E t \in Instants : Tick(t)

NextAuth ==
    \/ \E p \in Serial :
        \/ RegisterStart(p)
        \/ Register_Create(p)
        \/ LoginStart(p)
        \/ RefreshTokenStart(p)
        \/ JWTAuthStart(p)
    \/ TickStart

SpecAuth == InitAuth /\ [][NextAuth]_vars

(***************************************************************************)
(* SpecLifetime: a registered principal's session tokens while the         *)
(* services register, log in, read and update the profile, create and      *)
(* revoke API keys, create, rotate and delete partner credentials, and the  *)
(* clock moves; one request at a time.                                     *)
(***************************************************************************)
UpdateProfileInputs == {[FullName |-> "m", JobTitle |-> "dev", Company |-> ""]}

LifetimeRows == Cardinality(KeyIDs) + Cardinality(CredIDs)

\* the clock is moved to the last second before each token of time 0 expires
LifetimeInstants ==
    {cfg.JWTExpiryHours * SecondsPerHour - 1,
     cfg.JWTExpiryHours * RefreshFactor * SecondsPerHour - 1}

LifetimeTick == \E t \in LifetimeInstants : Tick(t)

LifetimeCanIssue == Cardinality(issued) < MaxLifetimeIssued

LifetimeRegisterStart(p) ==
    /\ LifetimeCanIssue
    /\ UserIDs # Users
    /\ \E input \in RegisterInputs : Register_EmailExists(p, input)

LifetimeLoginStart(p) ==
    /\ LifetimeCanIssue
    /\ \E input \in LoginInputs : Login(p, input)

GetProfileStart(p) == \E userID \in UserIDs : GetProfile(p, userID)

UpdateProfileStart(p) ==
    \E userID \in UserIDs, input \in UpdateProfileInputs :
        UpdateProfile_Find(p, userID, input)

UpdateProfileSave(p) == \E outcome \in SaveOutcomes : UpdateProfile_Save(p, outcome)

LifetimeCreateKeyStart(p) ==
    \E userID \in UserIDs, input \in CreateKeyInputs :
        /\ LifetimeRows < MaxLifetimeRows
        /\ CreateKey_Count(p, userID, input)

LifetimeRevokeKeyStart(p) ==
    \E keyID \in KeyIDs : RevokeKey_Find(p, keyID, apiKeys[keyID].UserID)

LifetimeCreateCredentialStart(p) ==
    /\ rng < MaxDraws
    /\ \E userID \in UserIDs, input \in QuotaInputs :
          /\ LifetimeRows < MaxLifetimeRows
          /\ CreateCredential_Count(p, userID, input, FreshClientID)

LifetimeRegenerateSecretStart(p) ==
    /\ rng < MaxDraws
    /\ \E id \in CredIDs : RegenerateSecret_Find(p, id, creds[id].UserID)

\* the tokens handed out are presented again
LifetimeRefreshTokenStart(p) ==
    \E pair \in issued :
        /\ LifetimeCanIssue \/ RefreshTokenResult(pair.RefreshToken).err # NoError
              \/ now = pair.RefreshToken.iat[1]
        /\ RefreshToken(p, pair.RefreshToken)

LifetimeJWTAuthStart(p) ==
    \E pair \in issued : JWTAuth(p, <<"Bearer", pair.AccessToken>>)

NextLifetime ==
    \/ \E p \in Serial :
        \/ LifetimeRegisterStart(p)
        \/ Register_Create(p)
        \/ LifetimeLoginStart(p)
        \/ GetProfileStart(p)
        \/ UpdateProfileStart(p)
        \/ UpdateProfileSave(p)
        \/ LifetimeCreateKeyStart(p)
        \/ CreateKey_Insert(p)
        \/ LifetimeRevokeKeyStart(p)
        \/ RevokeKey_Revoke(p)
        \/ LifetimeCreateCredentialStart(p)
        \/ CreateCredential_Insert(p)
        \/ QuotaDeleteStart(p)
        \/ DeleteCredential_Delete(p)
        \/ LifetimeRegenerateSecretStart(p)
        \/ RegenerateSecretSave(p)
        \/ LifetimeRefreshTokenStart(p)
        \/ LifetimeJWTAuthStart(p)
    \/ LifetimeTick

SpecLifetime == Init /\ [][NextLifetime]_vars

(***************************************************************************)
(* SpecValidate: ValidateCredential over rows in every condition (active,  *)
(* inactive, soft-deleted, secret replaced), one request at a time.        *)
(* No service calls PartnerCredentialRepository.Deactivate; it is included *)
(* as the one way the repository has of making a row inactive.             *)
(***************************************************************************)
\* rows of the partner credential table, of all owners together
MaxValidateRows == 2

ValidateCreateCredentialStart(p) ==
    /\ Cardinality(CredIDs) < MaxValidateRows
    /\ CreateCredentialStart(p)

DeactivateStart == \E id \in CredIDs, userID \in Users : Deactivate(id, userID)

NextValidate ==
    \/ \E p \in Serial :
          \/ ValidateCreateCredentialStart(p)
          \/ CreateCredential_Insert(p)
          \/ DeleteCredentialStart(p)
          \/ DeleteCredential_Delete(p)
          \/ RegenerateSecretStart(p)
          \/ RegenerateSecretSave(p)
          \/ ValidateCredentialStart(p)
          \/ ValidateCredentialUpdateLastUsed(p)
    \/ DeactivateStart

SpecValidate == Init /\ [][NextValidate]_vars

(***************************************************************************)
(* SpecStore: every operation that writes the API key table or the partner *)
(* credential table, and those that read keys and credentials back, one    *)
(* request at a time.                                                      *)
(* SpecClientIDs: CreateCredential and DeleteCredential requests handled   *)
(* concurrently. In both the random source may deliver a client ID that is *)
(* already stored or that a request in progress has drawn.                 *)
(***************************************************************************)
\* rows of the two tables together
MaxStoreRows == 2

StoreRows == Cardinality(KeyIDs) + Cardinality(CredIDs)

\* the client IDs the random source may deliver: a new one, a stored one, or the
\* one a CreateCredential in progress is about to insert
DrawnClientIDs ==
    {FreshClientID}
        \cup {creds[i].ClientID : i \in CredIDs}
        \cup {loc[q].credential.ClientID : q \in {r \in Procs : pc[r] = "CreateCredential_Insert"}}

StoreCreateCredentialStart(p) ==
    /\ StoreRows < MaxStoreRows
    /\ rng < MaxDraws
    /\ \E userID \in Users, input \in QuotaInputs, clientID \in DrawnClientIDs :
          CreateCredential_Count(p, userID, input, clientID)

StoreUpdateCredentialStart(p) ==
    \E id \in CredIDs, input \in UpdateCredentialInputs :
        UpdateCredential_Find(p, id, creds[id].UserID, input)

StoreUpdatePublicKeyStart(p) ==
    \E id \in CredIDs : UpdatePublicKey_Find(p, id, creds[id].UserID, [PublicKey |-> Pkix2PEM])

StoreRegenerateSecretStart(p) ==
    /\ rng < MaxDraws
    /\ \E id \in CredIDs : RegenerateSecret_Find(p, id, creds[id].UserID)

StoreCreateKeyStart(p) ==
    /\ StoreRows < MaxStoreRows
    /\ \E userID \in Users, input \in CreateKeyInputs : CreateKey_Count(p, userID, input)

StoreRevokeKeyStart(p) ==
    \E keyID \in KeyIDs : RevokeKey_Find(p, keyID, apiKeys[keyID].UserID)

StoreListCredentialsStart(p) == \E userID \in Users : ListCredentials(p, userID)

StoreGetCredentialStart(p) == \E id \in CredIDs : GetCredential(p, id, creds[id].UserID)

StoreListKeysStart(p) == \E userID \in Users : ListKeys(p, userID)

NextStore ==
    \E p \in Serial :
        \/ StoreCreateCredentialStart(p)
        \/ CreateCredential_Insert(p)
        \/ StoreListCredentialsStart(p)
        \/ StoreGetCredentialStart(p)
        \/ StoreUpdateCredentialStart(p)
        \/ UpdateCredentialSave(p)
        \/ StoreUpdatePublicKeyStart(p)
        \/ UpdatePublicKey_Update(p)
        \/ UpdatePublicKey_Refresh(p)
        \/ StoreRegenerateSecretStart(p)
        \/ RegenerateSecretSave(p)
        \/ QuotaDeleteStart(p)
        \/ DeleteCredential_Delete(p)
        \/ StoreCreateKeyStart(p)
        \/ CreateKey_Insert(p)
        \/ StoreListKeysStart(p)
        \/ StoreRevokeKeyStart(p)
        \/ RevokeKey_Revoke(p)

SpecStore == Init /\ [][NextStore]_vars

\* rows of the partner credential table, of all owners together
MaxClientIDRows == 2

\* client IDs and secrets drawn, the draws of failed requests included
MaxClientIDDraws == 3

ClientIDsCreateStart(p) ==
    /\ Cardinality(CredIDs) < MaxClientIDRows
    /\ rng < MaxClientIDDraws
    /\ \E userID \in Users, input \in QuotaInputs, clientID \in DrawnClientIDs :
          CreateCredential_Count(p, userID, input, clientID)

NextClientIDs ==
    \E p \in Procs :
        \/ ClientIDsCreateStart(p)
        \/ CreateCredential_Insert(p)
        \/ QuotaDeleteStart(p)
        \/ DeleteCredential_Delete(p)

SpecClientIDs == Init /\ [][NextClientIDs]_vars

(***************************************************************************)
(* SpecPublicKey: CreateCredential and UpdatePublicKey with public keys of *)
(* every kind, one request at a time, up to the credential limit           *)
(***************************************************************************)
\* client secrets drawn, the draws of rejected requests included
MaxPublicKeyDraws == 6

\* a PKIX body under the PKCS#1 block type
CrossPEM == [text |-> TRUE, block |-> TRUE, type |-> "RSA PUBLIC KEY", der |-> "pkix1"]

PublicKeyCreateInputs == {EmptyKey, NotPEM, CertPEM, Pkcs1PEM}
PublicKeyUpdateInputs == {EmptyKey, CertPEM, JunkPEM, CrossPEM}

PublicKeyCreateStart(p) ==
    /\ rng < MaxPublicKeyDraws \/ CountByUserID("u1") >= MaxCredentialsPerUser
    /\ \E k \in PublicKeyCreateInputs :
          CreateCredential_Count(p, "u1",
              [PartnerName |-> "acme", Environment |-> "", CallbackURL |-> "",
               IPWhitelist |-> <<>>, PublicKey |-> k],
              FreshClientID)

\* the first credential of u1, named by its owner or by another principal, or a
\* credential that is not stored
PublicKeyUpdateStart(p) ==
    \E target \in {<<<<"u1", 1>>, "u1">>, <<<<"u1", 1>>, "u2">>, <<<<"u1", 0>>, "u1">>},
       k \in PublicKeyUpdateInputs :
        UpdatePublicKey_Find(p, target[1], target[2], [PublicKey |-> k])

NextPublicKey ==
    \E p \in Serial :
        \/ PublicKeyCreateStart(p)
        \/ CreateCredential_Insert(p)
        \/ PublicKeyUpdateStart(p)
        \/ UpdatePublicKey_Update(p)
        \/ UpdatePublicKey_Refresh(p)

SpecPublicKey == Init /\ [][NextPublicKey]_vars

(***************************************************************************)
(* Properties                                                              *)
(***************************************************************************)
\* the step in which handler p returns from operation op
Returns(p, op) == pc'[p] = Idle /\ ret'[p] # ret[p] /\ ret'[p].op = op

\* C1 (Spec): when RegenerateSecret returns successfully for a credential whose
\* stored secret was S_old, ValidateCredential with the client ID and S_old fails,
\* and ValidateCredential with the client ID and the returned secret succeeds and
\* yields that credential.
C1_RotationReplacesSecret ==
    [][\A p \in Procs :
          (pc[p] = "RegenerateSecret_Save" /\ Returns(p, "RegenerateSecret")
              /\ ret'[p].err = NoError)
          => \E id \in {loc[p].credential.ID} :
             \E clientID \in {creds[id].ClientID} :
             \E old \in {creds[id].ClientSecret} :
             \E new \in {ret'[p].val.ClientSecret} :
                /\ ValidateCredentialResult(clientID, old)'.err = ErrCredentialNotFound
                /\ ValidateCredentialResult(clientID, new)' = [err |-> NoError, id |-> id]]_vars

\* C1 witness: after a rotation, ValidateCredential has run with the new secret of
\* the rotated credential and returned it.
C1_Witness ==
    /\ ret["p1"].op = "ValidateCredential"
    /\ ret["p1"].err = NoError
    /\ \E r \in rotated : r[1] = ret["p1"].val.ID /\ r[2] # ret["p1"].val.ClientSecret

\* C2 (SpecRotation): a secret that RegenerateSecret has replaced is never again
\* the stored secret of that credential and is never again accepted by
\* ValidateCredential.
C2_ReplacedSecretStaysInvalid ==
    \A r \in rotated :
        /\ creds[r[1]].ClientSecret # r[2]
        /\ ValidateCredentialResult(creds[r[1]].ClientID, r[2]).err # NoError

\* the active credentials of a principal: is_active and not soft-deleted
ActiveCredentials(userID) ==
    {i \in CredIDs : creds[i].UserID = userID /\ creds[i].IsActive /\ creds[i].DeletedAt = <<>>}

\* C3 (SpecQuota): in every reachable state each principal owns at most 5 active
\* partner credentials.
C3_AtMostFiveActive ==
    \A u \in Users : Cardinality(ActiveCredentials(u)) <= 5

\* C4 (SpecQuotaSerial): with 5 active credentials CreateCredential fails with
\* ErrMaxCredentialsReached, which it returns in no other case, and stores nothing;
\* DeleteCredential of an active credential frees one slot, and a CreateCredential
\* of a principal with fewer than 5 active credentials (a valid public key or none)
\* succeeds and stores one more active credential of that principal.
C4_QuotaErrorAndRelease ==
    [][\A p \in Procs :
        /\ (Returns(p, "CreateCredential") /\ pc[p] = Idle)
            => /\ creds' = creds
               /\ (ret'[p].err = ErrMaxCredentialsReached
                     <=> Cardinality(ActiveCredentials(ret'[p].req.userID)) >= 5)
        /\ (pc[p] = Idle /\ pc'[p] = "CreateCredential_Insert")
            => Cardinality(ActiveCredentials(loc'[p].req.userID)) < 5
        /\ (Returns(p, "CreateCredential") /\ pc[p] = "CreateCredential_Insert")
            => /\ ret'[p].err = NoError
               /\ \E u \in {ret'[p].req.userID} :
                    /\ Cardinality(ActiveCredentials(u))' = Cardinality(ActiveCredentials(u)) + 1
                    /\ Cardinality(CredIDs)' = Cardinality(CredIDs) + 1
        /\ (Returns(p, "DeleteCredential") /\ ret'[p].err = NoError)
            => \E u \in {ret'[p].req.userID} :
                  Cardinality(ActiveCredentials(u))' = Cardinality(ActiveCredentials(u)) - 1]_vars

\* C4 witness: a principal that has had 5 active credentials and deleted one has
\* just created another one: 6 rows, 5 of them active.
C4_Witness ==
    /\ ret["p1"].op = "CreateCredential"
    /\ ret["p1"].err = NoError
    /\ ret["p1"].req.userID = "u1"
    /\ Cardinality(ActiveCredentials("u1")) = 5
    /\ Cardinality(RowsOf("u1")) = 6
    /\ creds[<<"u1", 6>>].DeletedAt = <<>>


\* the active API keys of a principal
ActiveKeys(userID) ==
    {i \in KeyIDs : apiKeys[i].UserID = userID /\ apiKeys[i].IsActive}

\* C5 (SpecKeys): with CreateKey and RevokeKey run one after the other, every
\* principal has at most 10 active API keys; CreateKey fails with ErrMaxKeysReached
\* exactly when the principal has 10 or more active keys, and otherwise stores one
\* more active key; RevokeKey of an active key lowers the principal's active count
\* by one.
C5_KeyQuota ==
    /\ [](\A u \in Users : Cardinality(ActiveKeys(u)) <= MaxAPIKeysPerUser)
    /\ [][\A p \in Procs :
            /\ (Returns(p, "CreateKey") /\ pc[p] = Idle)
                => /\ apiKeys' = apiKeys
                   /\ ret'[p].err = ErrMaxKeysReached
                   /\ Cardinality(ActiveKeys(ret'[p].req.userID)) >= 10
            /\ (pc[p] = Idle /\ pc'[p] = "CreateKey_Insert")
                => Cardinality(ActiveKeys(loc'[p].req.userID)) < 10
            /\ (Returns(p, "CreateKey") /\ pc[p] = "CreateKey_Insert")
                => /\ ret'[p].err = NoError
                   /\ \E u \in {ret'[p].req.userID} :
                        Cardinality(ActiveKeys(u))' = Cardinality(ActiveKeys(u)) + 1
            /\ (Returns(p, "RevokeKey") /\ ret'[p].err = NoError)
                => \E k \in {ret'[p].req.keyID}, u \in {ret'[p].req.userID} :
                      /\ ~apiKeys'[k].IsActive
                      /\ Cardinality(ActiveKeys(u))' =
                            Cardinality(ActiveKeys(u)) - (IF apiKeys[k].IsActive THEN 1 ELSE 0)]_vars

\* C5 witness: a principal that had 10 active keys and revoked one has created an
\* eleventh key: 11 rows, 10 of them active.
C5_Witness ==
    /\ ret["p1"].op = "CreateKey"
    /\ ret["p1"].err = NoError
    /\ ret["p1"].req.userID = "u1"
    /\ Cardinality(KeyRowsOf("u1")) = 11
    /\ Cardinality(ActiveKeys("u1")) = 10
    /\ apiKeys[<<"u1", 11>>].IsActive


(***************************************************************************)
(* Tokens a client may present, issued or not: signing methods, keys,      *)
(* subjects, types and expiries around the current time.                   *)
(***************************************************************************)
TokenAlgs == {"HS256", "HS384", "RS256", "none"}
TokenKeys == {BytesKey(cfg.JWTSecret), BytesKey("guess")}
TokenSubs ==
    {Str("u1"), Str("U1"), Str("u2"), Str("not-a-uuid"), [t |-> "number", s |-> "42"]}
TokenTypes == {Str("access"), Str("refresh"), Str("other")}

\* signed by an HMAC method with the configured secret: every subject, type and expiry
SignedTokens ==
    {[segments |-> 3, alg |-> a, sig |-> Sign(a, BytesKey(cfg.JWTSecret)), sub |-> sub,
      email |-> Absent, type |-> type, exp |-> exp, iat |-> <<now>>] :
        a \in TokenAlgs \cap HMACMethods, sub \in TokenSubs, type \in TokenTypes,
        exp \in {<<>>, <<now - 1>>, <<now>>, <<now + 1>>}}

\* any other method or key: claims that would pass if the signature did
UnsignedTokens ==
    {[segments |-> 3, alg |-> a, sig |-> Sign(a, k), sub |-> Str("u1"),
      email |-> Absent, type |-> type, exp |-> exp, iat |-> <<now>>] :
        a \in TokenAlgs, k \in TokenKeys, type \in {Str("access"), Str("refresh")},
        exp \in {<<>>, <<now + 1>>}}

TokenUniverse == SignedTokens \cup UnsignedTokens \cup IssuedTokens \cup Forged

Bearer(token) == <<"Bearer", token>>
AcceptedByJWTAuth(token) == JWTAuthResult(Bearer(token)).status = 200
AcceptedByRefreshToken(token) == RefreshTokenResult(token).err = NoError

\* C6: before its expiry, an access token handed out by the auth service passes
\* the JWTAuth middleware and is refused by RefreshToken, and a refresh token
\* handed out by it passes RefreshToken and is refused by the middleware; and
\* no token at all, issued or not, passes both.
C6_TokenTypesKeptApart ==
    /\ \A pair \in issued :
        /\ now < pair.AccessToken.exp[1]
            => /\ AcceptedByJWTAuth(pair.AccessToken)
               /\ ~AcceptedByRefreshToken(pair.AccessToken)
        /\ now < pair.RefreshToken.exp[1]
            => /\ AcceptedByRefreshToken(pair.RefreshToken)
               /\ ~AcceptedByJWTAuth(pair.RefreshToken)
    /\ \A token \in TokenUniverse :
        ~(AcceptedByJWTAuth(token) /\ AcceptedByRefreshToken(token))

\* an unexpired access token of the service has just been refused by RefreshToken
\* for its type, after the clock has moved
C6_Witness ==
    /\ now > 0
    /\ pc["p1"] = Idle
    /\ ret["p1"].op = "RefreshToken"
    /\ ret["p1"].err = ErrInvalidTokenType
    /\ ret["p1"].req \in {pair.AccessToken : pair \in issued}
    /\ now < ret["p1"].req.exp[1]

\* C7: a token whose header names a method outside the HMAC family is refused by
\* the JWTAuth middleware and by RefreshToken, whatever its signature and claims.
C7_NonHMACRejected ==
    \A token \in TokenUniverse :
        token.alg \notin HMACMethods
            => ~AcceptedByJWTAuth(token) /\ ~AcceptedByRefreshToken(token)

\* RefreshToken has just refused an RS256 refresh token naming a registered user
C7_Witness ==
    /\ pc["p1"] = Idle
    /\ ret["p1"].op = "RefreshToken"
    /\ ret["p1"].req = RS256Token
    /\ ret["p1"].err = ErrInvalidRefreshToken
    /\ UserFindByID(RS256Token.sub.s) # {}

\* signed by an HMAC method with the configured secret
CorrectlySigned(token) ==
    /\ token.segments = 3
    /\ token.alg \in HMACMethods
    /\ token.sig = Sign(token.alg, BytesKey(cfg.JWTSecret))

\* C8: a correctly signed token of the expected type is refused by JWTAuth and by
\* RefreshToken when its exp is one second before the current time, and accepted
\* when its exp is one second after it (its sub being a user ID, and for
\* RefreshToken that of a stored user, as in every token the service signs).
C8_ExpiryBoundary ==
    \A token \in {t \in TokenUniverse : CorrectlySigned(t)} :
        /\ token.exp = <<now - 1>>
            => /\ token.type = Str("access") => ~AcceptedByJWTAuth(token)
               /\ token.type = Str("refresh") => ~AcceptedByRefreshToken(token)
        /\ token.exp = <<now + 1>>
            => /\ (token.type = Str("access") /\ token.sub.t = "string"
                      /\ token.sub.s \in UUIDStrings)
                    => AcceptedByJWTAuth(token)
               /\ (token.type = Str("refresh") /\ token.sub.t = "string"
                      /\ token.sub.s \in UUIDStrings
                      /\ UserFindByID(UUIDParse(token.sub.s)) # {})
                    => AcceptedByRefreshToken(token)

\* the middleware has just let through an access token one second before its exp
C8_Witness ==
    /\ pc["p1"] = Idle
    /\ ret["p1"].op = "JWTAuth"
    /\ ret["p1"].err = NoError
    /\ ret["p1"].req[2].exp = <<now + 1>>
    /\ ret["p1"].req[2] \in IssuedTokens

\* C9: when the refresh token Register has just returned is presented to
\* RefreshToken before it expires, the access token that comes back differs from
\* the one Register returned and carries the same sub.
C9_RefreshedAccessTokenDiffers ==
    [][\A p \in Procs :
          (/\ pc[p] = Idle
           /\ ret[p].op = "Register"
           /\ ret[p].err = NoError
           /\ Returns(p, "RefreshToken")
           /\ ret'[p].req = ret[p].val.RefreshToken
           /\ NotExpired(ret[p].val.RefreshToken, now))
          => /\ ret'[p].err = NoError
             /\ ret'[p].val.AccessToken # ret[p].val.AccessToken
             /\ ret'[p].val.AccessToken.sub = ret[p].val.AccessToken.sub]_vars

\* the pair generateAuthResponse mints at the current time for the subject of token
MintedNow(response, token) ==
    /\ response.AccessToken.type = Str("access")
    /\ response.RefreshToken.type = Str("refresh")
    /\ response.AccessToken.sub = Str(UUIDParse(token.sub.s))
    /\ response.RefreshToken.sub = Str(UUIDParse(token.sub.s))
    /\ response.AccessToken.iat = <<now>>
    /\ response.RefreshToken.iat = <<now>>
    /\ now < response.AccessToken.exp[1]
    /\ now < response.RefreshToken.exp[1]
    /\ CorrectlySigned(response.AccessToken)
    /\ CorrectlySigned(response.RefreshToken)

\* C10: every refresh token the service has handed out, however often it or any
\* other has been presented since, is accepted by RefreshToken until its own exp,
\* and each such call returns a complete access+refresh pair minted at the time
\* of the call and takes no earlier pair away.
C10_RefreshTokenNotConsumed ==
    /\ [](\A pair \in issued :
            now < pair.RefreshToken.exp[1]
                => /\ AcceptedByRefreshToken(pair.RefreshToken)
                   /\ MintedNow(RefreshTokenResult(pair.RefreshToken).val,
                                pair.RefreshToken))
    /\ [][\A p \in Procs :
            (/\ Returns(p, "RefreshToken")
             /\ ret'[p].req \in {pair.RefreshToken : pair \in issued}
             /\ now < ret'[p].req.exp[1])
            => /\ ret'[p].err = NoError
               /\ issued \subseteq issued'
               /\ [AccessToken |-> ret'[p].val.AccessToken,
                   RefreshToken |-> ret'[p].val.RefreshToken] \in issued'
               /\ users' = users]_vars

\* the refresh token minted at time 0 has just been accepted again, after the
\* pair it bought at an earlier time, whose refresh token is still good too
C10_Witness ==
    /\ now > 0
    /\ pc["p1"] = Idle
    /\ ret["p1"].op = "RefreshToken"
    /\ ret["p1"].err = NoError
    /\ ret["p1"].req.iat = <<0>>
    /\ ret["p1"].req \in {pair.RefreshToken : pair \in issued}
    /\ ret["p1"].val.RefreshToken.iat = <<now>>
    /\ \E pair \in issued :
        /\ 0 < pair.RefreshToken.iat[1]
        /\ pair.RefreshToken.iat[1] < now
        /\ AcceptedByRefreshToken(pair.RefreshToken)


\* C11 (SpecLifetime): an access token the service has handed out is accepted by
\* JWTAuth, and a refresh token it has handed out is accepted by RefreshToken, at
\* every time before its exp, whatever registrations, logins, profile reads and
\* updates, API-key and partner-credential operations have run since it was issued.
C11_OnlyExpiryEndsValidity ==
    \A token \in IssuedTokens :
        NotExpired(token, now)
            => /\ token.type = Str("access") => AcceptedByJWTAuth(token)
               /\ token.type = Str("refresh") => AcceptedByRefreshToken(token)

\* the middleware has just accepted an access token minted at time 0, after the
\* clock has moved and the profile was updated, an API key revoked and a partner
\* credential rotated and deleted
C11_Witness ==
    /\ now > 0
    /\ pc["p1"] = Idle
    /\ ret["p1"].op = "JWTAuth"
    /\ ret["p1"].err = NoError
    /\ ret["p1"].req[2].iat = <<0>>
    /\ \E u \in UserIDs : users[u].JobTitle = "dev"
    /\ \E k \in KeyIDs : ~apiKeys[k].IsActive
    /\ rotated # {}
    /\ \E i \in CredIDs : creds[i].DeletedAt # <<>>


\* the errors RefreshToken has for a bad signature or an expired token, a wrong
\* type, and a subject that is no string or no UUID
TokenErrors ==
    {ErrInvalidRefreshToken, ErrInvalidTokenType, ErrInvalidUserID, ErrInvalidUserIDFormat}

\* the sub of the token is a UUID that no stored, non-deleted user has
SubjectUnresolved(token) ==
    /\ token.sub.t = "string"
    /\ token.sub.s \in UUIDStrings
    /\ UserFindByID(UUIDParse(token.sub.s)) = {}

\* C12: a correctly signed, unexpired refresh token whose sub names no stored user
\* makes RefreshToken fail with ErrUserNotFound and return nothing; RefreshToken
\* returns that error in no other case, it is none of the errors for a bad
\* signature, an expired token, a wrong type or an unparseable sub, and the call
\* hands out no token pair.
C12_UnknownSubject ==
    /\ [](/\ ErrUserNotFound \notin TokenErrors \cup {NoError}
          /\ \A token \in TokenUniverse :
                (RefreshTokenResult(token).err = ErrUserNotFound)
                    <=> /\ CorrectlySigned(token)
                        /\ NotExpired(token, now)
                        /\ token.type = Str("refresh")
                        /\ SubjectUnresolved(token))
    /\ [][\A p \in Procs :
            (Returns(p, "RefreshToken") /\ ret'[p].err = ErrUserNotFound)
                => /\ ret'[p].val = NoVal
                   /\ issued' = issued
                   /\ users' = users]_vars

\* RefreshToken has just refused, with ErrUserNotFound, a well-signed refresh token
\* naming a user that is not stored, while another user is stored
C12_Witness ==
    /\ pc["p1"] = Idle
    /\ ret["p1"].op = "RefreshToken"
    /\ ret["p1"].req = UnknownUserToken
    /\ ret["p1"].err = ErrUserNotFound
    /\ UserIDs # {}
    /\ issued # {}


\* the empty string where a token is expected
EmptyToken == [Template EXCEPT !.segments = 1]

\* Authorization headers a client may send, as their space-separated fields: none,
\* one field, two fields (every token under "Bearer", the issued and the forged
\* ones under every scheme word), and three fields (two spaces before the token,
\* or a further word after it)
SchemeWords == {"Bearer", "bearer", "BEARER", "Basic", ""}
HeaderUniverse ==
    {<<>>}
        \cup {<<w>> : w \in SchemeWords}
        \cup {<<"Bearer", token>> : token \in TokenUniverse}
        \cup {<<w, token>> : w \in SchemeWords, token \in IssuedTokens \cup Forged}
        \cup {<<"Bearer", EmptyToken, token>> : token \in IssuedTokens}
        \cup {<<"Bearer", token, EmptyToken>> : token \in IssuedTokens}
        \cup {<<"Bearer", EmptyToken>>}

\* the spellings of the scheme word that equal "bearer" when case is ignored
BearerSpellings == {"Bearer", "bearer", "BEARER"}

\* C13: the middleware lets a request through exactly when its Authorization
\* header has two space-separated fields, the first "bearer" in any case and the
\* second a token with a valid signature that has not expired, has type "access"
\* and a sub that parses as a UUID; then the userID it stores is the UUID of the
\* sub; in every other case it answers 401 and stores nothing.
C13_MiddlewareDecision ==
    \A authHeader \in HeaderUniverse :
        LET result == JWTAuthResult(authHeader)
            wellFormed ==
                /\ Len(authHeader) = 2
                /\ authHeader[1] \in BearerSpellings
                /\ CorrectlySigned(authHeader[2])
                /\ NotExpired(authHeader[2], now)
                /\ authHeader[2].type = Str("access")
                /\ authHeader[2].sub.t = "string"
                /\ authHeader[2].sub.s \in UUIDStrings
        IN /\ result.status \in {200, 401}
           /\ result.status = 200 <=> wellFormed
           /\ result.status = 200
                => /\ result.message = "next"
                   /\ result.userID = UUIDParse(authHeader[2].sub.s)
           /\ result.status = 401 => result.message # "next" /\ result.userID = ""

\* the middleware has just let through a request whose header spells the scheme
\* "Bearer" and carries an access token of the stored user, and stored that user's ID
C13_Witness ==
    /\ pc["p1"] = Idle
    /\ ret["p1"].op = "JWTAuth"
    /\ ret["p1"].val.status = 200
    /\ ret["p1"].req[1] = "Bearer"
    /\ ret["p1"].val.userID \in UserIDs
    /\ ret["p1"].val.userID = ret["p1"].req[2].sub.s

\* the conditions in which ValidateCredential has nothing to return
Stored(clientID) == {i \in CredIDs : creds[i].ClientID = clientID}
UnknownClient(clientID) == Stored(clientID) = {}
InactiveClient(clientID) == \E i \in Stored(clientID) : ~creds[i].IsActive
SoftDeletedClient(clientID) == \E i \in Stored(clientID) : creds[i].DeletedAt # <<>>
WrongSecret(clientID, clientSecret) ==
    \E i \in Stored(clientID) : creds[i].ClientSecret # clientSecret
FailureCase(clientID, clientSecret) ==
    \/ UnknownClient(clientID)
    \/ InactiveClient(clientID)
    \/ SoftDeletedClient(clientID)
    \/ WrongSecret(clientID, clientSecret)

\* C14 (SpecValidate): whether the client ID is unknown, the credential inactive or
\* soft-deleted, or the presented secret not the stored one, ValidateCredential
\* gives the same result: ErrCredentialNotFound and no credential; nothing in what
\* it returns (and nothing it stores) tells the cases apart.
C14_FailuresIndistinguishable ==
    /\ [](\A clientID \in ClientIDInputs, clientSecret \in SecretInputs :
             FailureCase(clientID, clientSecret)
                 => ValidateCredentialResult(clientID, clientSecret)
                        = [err |-> ErrCredentialNotFound, id |-> <<>>])
    /\ [][\A p \in Procs :
             (pc[p] = Idle /\ Returns(p, "ValidateCredential"))
                 => /\ FailureCase(ret'[p].req.clientID, ret'[p].req.clientSecret)
                    /\ ret'[p].err = ErrCredentialNotFound
                    /\ ret'[p].val = NoVal
                    /\ creds' = creds]_vars

\* the secret of an inactive credential is refused like any other, next to a
\* soft-deleted credential
C14_Witness ==
    /\ pc["p1"] = Idle
    /\ ret["p1"].op = "ValidateCredential"
    /\ ret["p1"].err = ErrCredentialNotFound
    /\ \E i \in CredIDs :
          /\ creds[i].ClientID = ret["p1"].req.clientID
          /\ creds[i].ClientSecret = ret["p1"].req.clientSecret
          /\ ~creds[i].IsActive
          /\ creds[i].DeletedAt = <<>>
    /\ \E i \in CredIDs : creds[i].DeletedAt # <<>>

\* the rows ValidateCredential accepts the pair for
Matching(clientID, clientSecret) ==
    {i \in CredIDs : /\ creds[i].ClientID = clientID
                     /\ creds[i].IsActive
                     /\ creds[i].DeletedAt = <<>>
                     /\ creds[i].ClientSecret = clientSecret}

\* C15 (SpecValidate): for an active credential and its stored secret,
\* ValidateCredential returns that credential and no error whether or not the
\* last-used update succeeds; and a row's last-used timestamp changes only in the
\* step in which a ValidateCredential for that row returns successfully.
C15_LastUsedBestEffort ==
    /\ [](\A clientID \in ClientIDInputs, clientSecret \in SecretInputs :
             \A i \in Matching(clientID, clientSecret) :
                 ValidateCredentialResult(clientID, clientSecret) = [err |-> NoError, id |-> i])
    /\ [][\A p \in Procs :
             (pc[p] = "ValidateCredential_UpdateLastUsed" /\ pc'[p] # pc[p])
                 => /\ Returns(p, "ValidateCredential")
                    /\ ret'[p].err = NoError
                    /\ ret'[p].val = loc[p].credential
                    /\ ret'[p].val.ID \in Matching(ret'[p].req.clientID, ret'[p].req.clientSecret)]_vars
    /\ [][\A i \in CredIDs :
             /\ i \in DOMAIN creds'
             /\ creds'[i].LastUsedAt # creds[i].LastUsedAt
             => \E p \in Procs :
                   /\ pc[p] = "ValidateCredential_UpdateLastUsed"
                   /\ Returns(p, "ValidateCredential")
                   /\ ret'[p].err = NoError
                   /\ ret'[p].val.ID = i
                   /\ creds'[i] = [creds[i] EXCEPT !.LastUsedAt = <<now>>]]_vars

\* a validation has succeeded although its last-used update failed: the row it
\* returned has never been stamped
C15_Witness ==
    /\ pc["p1"] = Idle
    /\ ret["p1"].op = "ValidateCredential"
    /\ ret["p1"].err = NoError
    /\ ret["p1"].val.ID \in CredIDs
    /\ creds[ret["p1"].val.ID].LastUsedAt = <<>>
    /\ creds[ret["p1"].val.ID].ClientSecret = ret["p1"].req.clientSecret

\* C16 (SpecStore): no step removes a row of the API key table or of the partner
\* credential table, and a stored row keeps its ID, owner and client ID; RevokeKey
\* changes nothing but the active flag of its key, which becomes false, and
\* DeleteCredential nothing but the deletion mark of its credential.
C16_NoRowRemoved ==
    [][/\ \A i \in CredIDs :
             /\ i \in DOMAIN creds'
             /\ creds'[i].ID = creds[i].ID
             /\ creds'[i].UserID = creds[i].UserID
             /\ creds'[i].ClientID = creds[i].ClientID
       /\ \A k \in KeyIDs :
             /\ k \in DOMAIN apiKeys'
             /\ apiKeys'[k].ID = apiKeys[k].ID
             /\ apiKeys'[k].UserID = apiKeys[k].UserID
       /\ \A p \in Procs :
             (pc[p] = "RevokeKey_Revoke" /\ Returns(p, "RevokeKey"))
                 => /\ creds' = creds
                    /\ DOMAIN apiKeys' = KeyIDs
                    /\ \A k \in KeyIDs :
                          IF k = ret'[p].req.keyID /\ ret'[p].err = NoError
                          THEN apiKeys'[k] = [apiKeys[k] EXCEPT !.IsActive = FALSE]
                          ELSE apiKeys'[k] = apiKeys[k]
       /\ \A p \in Procs :
             (pc[p] = "DeleteCredential_Delete" /\ Returns(p, "DeleteCredential"))
                 => /\ apiKeys' = apiKeys
                    /\ DOMAIN creds' = CredIDs
                    /\ \A i \in CredIDs :
                          IF i = ret'[p].req.id /\ ret'[p].err = NoError
                          THEN creds'[i] = [creds[i] EXCEPT !.DeletedAt = <<now>>]
                          ELSE creds'[i] = creds[i]]_vars

\* a credential has just been deleted and a key was revoked before: both rows are
\* still stored
C16_Witness ==
    /\ pc["p1"] = Idle
    /\ ret["p1"].op = "DeleteCredential"
    /\ ret["p1"].err = NoError
    /\ ret["p1"].req.id \in CredIDs
    /\ creds[ret["p1"].req.id].DeletedAt # <<>>
    /\ \E k \in KeyIDs : ~apiKeys[k].IsActive

\* C17 (SpecClientIDs): no two rows of the partner credential table, soft-deleted
\* rows included and whoever owns them, have the same client ID; a CreateCredential
\* that reaches its insert with a client ID some row already has returns an error
\* and no credential, and leaves the table as it was.
C17_ClientIDUnique ==
    /\ [](\A i \in CredIDs, j \in CredIDs : creds[i].ClientID = creds[j].ClientID => i = j)
    /\ [][\A p \in Procs :
             (/\ pc[p] = "CreateCredential_Insert"
              /\ Returns(p, "CreateCredential")
              /\ \E i \in CredIDs : creds[i].ClientID = loc[p].credential.ClientID)
                 => /\ ret'[p].err # NoError
                    /\ ret'[p].val = NoVal
                    /\ creds' = creds]_vars

\* a CreateCredential has failed on its client ID while two principals hold a
\* credential each, one of them soft-deleted
C17_Witness ==
    /\ pc["p1"] = Idle
    /\ ret["p1"].op = "CreateCredential"
    /\ ret["p1"].err = ErrDuplicateKey
    /\ \E i \in CredIDs, j \in CredIDs :
          /\ creds[i].UserID # creds[j].UserID
          /\ creds[i].DeletedAt # <<>>
          /\ creds[j].DeletedAt = <<>>

\* the credential responses a result is made of, and the full secrets it carries
SecretFields(val) == IF "ClientSecret" \in DOMAIN val THEN {val.ClientSecret} ELSE {}
ResponsesOf(val) ==
    IF "Items" \in DOMAIN val THEN {val.Items[k] : k \in DOMAIN val.Items}
    ELSE IF "Response" \in DOMAIN val THEN {val.Response}
    ELSE IF "ClientID" \in DOMAIN val THEN {val}
    ELSE {}
DisclosedSecrets(val) ==
    SecretFields(val) \cup UNION {SecretFields(response) : response \in ResponsesOf(val)}

PrefixOnlyOps ==
    {"ListCredentials", "GetCredential", "UpdateCredential", "UpdatePublicKey", "DeleteCredential"}
SecretOps == {"CreateCredential", "RegenerateSecret"}

\* C18 (SpecStore): a successful CreateCredential or RegenerateSecret returns one
\* full secret, the one it has generated itself, which no earlier draw produced and
\* which is in no stored row and no result before this step; the results of
\* ListCredentials, GetCredential, UpdateCredential and UpdatePublicKey (and of
\* DeleteCredential and of every failed call) carry no full secret, only the display
\* prefix of the secret stored in the row they describe. (ValidateCredential, which
\* no route serves, hands the stored row to the caller that has presented its
\* secret; it returns nothing that caller does not hold.)
C18_SecretReturnedOnce ==
    /\ [](/\ \A i \in CredIDs : creds[i].ClientSecret[2] \in 1..rng
          /\ \A p \in Procs : \A secret \in DisclosedSecrets(ret[p].val) : secret[2] \in 1..rng)
    /\ [][\A p \in Procs :
             /\ (pc[p] = Idle /\ pc'[p] \in {"CreateCredential_Insert", "RegenerateSecret_Save"})
                   => /\ rng' = rng + 1
                      /\ loc'[p].credential.ClientSecret = GenSecret(rng')
                      /\ loc'[p].credential.ClientSecretPrefix = SecretPrefix(GenSecret(rng'))
             /\ \A op \in SecretOps :
                   Returns(p, op)
                       => IF ret'[p].err = NoError
                          THEN /\ DisclosedSecrets(ret'[p].val) = {loc[p].credential.ClientSecret}
                               /\ SecretFields(ret'[p].val.Response) = {}
                               /\ \A i \in CredIDs : creds[i].ClientSecret # ret'[p].val.ClientSecret
                               /\ \A q \in Procs : ret'[p].val.ClientSecret \notin DisclosedSecrets(ret[q].val)
                               /\ ret'[p].val.Response.ClientSecretPrefix
                                     = SecretPrefix(ret'[p].val.ClientSecret)
                          ELSE ret'[p].val = NoVal
             /\ \A op \in PrefixOnlyOps :
                   Returns(p, op)
                       => /\ DisclosedSecrets(ret'[p].val) = {}
                          /\ \A response \in ResponsesOf(ret'[p].val) :
                                /\ response.ID \in CredIDs
                                /\ response.ClientSecretPrefix
                                      = SecretPrefix(creds'[response.ID].ClientSecret)]_vars

\* ListCredentials has returned a credential whose secret was replaced before
C18_Witness ==
    /\ pc["p1"] = Idle
    /\ ret["p1"].op = "ListCredentials"
    /\ Len(ret["p1"].val.Items) >= 1
    /\ rotated # {}
    /\ ret["p1"].val.Items[1].ID \in {pair[1] : pair \in rotated}

\* the columns of an API key row, and the fields of an API key response
KeyRowFields ==
    {"ID", "UserID", "Name", "KeyPrefix", "KeyHash", "Environment", "IsActive",
     "LastUsedAt", "DeletedAt"}
KeyResponseFields == {"ID", "Name", "KeyPrefix", "Environment", "IsActive", "LastUsedAt"}

\* what a row or a response may show of the key generated for row id: its
\* display prefix, the namespace tag and the first 8 hex characters
ShowsPrefixOnly(record, id) ==
    /\ record.KeyPrefix = KeyPrefix(GenerateAPIKey(id))
    /\ record.KeyPrefix = <<"bas_", GenerateAPIKey(id)[2]>>
    /\ Len(record.KeyPrefix) < Len(GenerateAPIKey(id))

\* C19 (SpecStore): a stored API key row has no column for the key text; of the key
\* generated for it the row holds the bcrypt hash and the display prefix. The full
\* key is in the result of the CreateKey call that generated it and in no ListKeys
\* result, whose items show the prefix only.
C19_KeyTextNotStored ==
    /\ [](\A i \in KeyIDs :
             /\ DOMAIN apiKeys[i] = KeyRowFields
             /\ DOMAIN apiKeys[i].KeyHash = {"bcrypt"}
             /\ apiKeys[i].KeyHash = BcryptHash(GenerateAPIKey(i))
             /\ ShowsPrefixOnly(apiKeys[i], i))
    /\ [][\A p \in Procs :
             /\ (Returns(p, "CreateKey") /\ ret'[p].err = NoError)
                   => /\ DOMAIN ret'[p].val = {"Response", "Key"}
                      /\ DOMAIN ret'[p].val.Response = KeyResponseFields
                      /\ ret'[p].val.Response.ID \in DOMAIN apiKeys' \ KeyIDs
                      /\ ret'[p].val.Key = GenerateAPIKey(ret'[p].val.Response.ID)
                      /\ ShowsPrefixOnly(ret'[p].val.Response, ret'[p].val.Response.ID)
                      /\ \A i \in KeyIDs : GenerateAPIKey(i) # ret'[p].val.Key
             /\ (Returns(p, "CreateKey") /\ ret'[p].err # NoError) => ret'[p].val = NoVal
             /\ Returns(p, "ListKeys")
                   => /\ DOMAIN ret'[p].val = {"Items"}
                      /\ \A k \in DOMAIN ret'[p].val.Items :
                            /\ DOMAIN ret'[p].val.Items[k] = KeyResponseFields
                            /\ ret'[p].val.Items[k].ID \in KeyIDs
                            /\ ShowsPrefixOnly(ret'[p].val.Items[k], ret'[p].val.Items[k].ID)]_vars

\* ListKeys has returned a key while another key of the same principal is revoked
C19_Witness ==
    /\ pc["p1"] = Idle
    /\ ret["p1"].op = "ListKeys"
    /\ Len(ret["p1"].val.Items) = 1
    /\ \E i \in KeyIDs :
          /\ apiKeys[i].UserID = ret["p1"].req.userID
          /\ ~apiKeys[i].IsActive

\* the columns RegenerateSecret is to leave alone
FrameFields(row) ==
    [ID |-> row.ID, UserID |-> row.UserID, ClientID |-> row.ClientID,
     PartnerName |-> row.PartnerName, ChannelID |-> row.ChannelID,
     Environment |-> row.Environment, CallbackURL |-> row.CallbackURL,
     IPWhitelist |-> row.IPWhitelist, PublicKey |-> row.PublicKey,
     PublicKeyFingerprint |-> row.PublicKeyFingerprint, IsActive |-> row.IsActive]

\* C20 (SpecRotation): the write of a successful RegenerateSecret changes, in the
\* row it names, the client secret and its display prefix and none of ID, owner,
\* client ID, partner name, channel ID, environment, callback URL, IP allow-list,
\* public key, fingerprint and active flag; it changes no other row, and the owner
\* has as many active credentials after it as before.
C20_RegenerateSecretFrame ==
    [][\A p \in Procs :
          (/\ pc[p] = "RegenerateSecret_Save"
           /\ Returns(p, "RegenerateSecret")
           /\ ret'[p].err = NoError)
              => /\ DOMAIN creds' = CredIDs
                 /\ \A i \in CredIDs :
                       IF i = loc[p].req.id
                       THEN FrameFields(creds'[i]) = FrameFields(creds[i])
                       ELSE creds'[i] = creds[i]
                 /\ Cardinality({i \in CredIDs : /\ creds'[i].UserID = loc[p].req.userID
                                                 /\ creds'[i].IsActive
                                                 /\ creds'[i].DeletedAt = <<>>})
                       = Cardinality(ActiveCredentials(loc[p].req.userID))]_vars

\* what ValidateCredential would answer for every client ID and secret, given the
\* table
Accepted(table) ==
    {<<table[i].ClientID, table[i].ClientSecret>> :
        i \in {j \in DOMAIN table : table[j].IsActive /\ table[j].DeletedAt = <<>>}}

\* C21 (SpecRotation): the write of UpdatePublicKey changes, in the row it names,
\* the public key, its fingerprint and the key-added time and nothing else, and no
\* other row; the client secret and its prefix stay, and ValidateCredential accepts
\* after it exactly the secrets it accepted before. Its re-read writes nothing.
C21_UpdatePublicKeyFrame ==
    [][\A p \in Procs :
          /\ (pc[p] = "UpdatePublicKey_Update" /\ pc'[p] # pc[p])
                => /\ DOMAIN creds' = CredIDs
                   /\ \A i \in CredIDs :
                         IF i = loc[p].id /\ creds[i].UserID = loc[p].userID /\ Live(i)
                         THEN /\ creds'[i] = [creds[i] EXCEPT
                                                !.PublicKey = loc[p].publicKey,
                                                !.PublicKeyFingerprint = loc[p].fingerprint,
                                                !.PublicKeyAddedAt = <<now>>]
                              /\ creds'[i].ClientSecret = creds[i].ClientSecret
                              /\ creds'[i].ClientSecretPrefix = creds[i].ClientSecretPrefix
                         ELSE creds'[i] = creds[i]
                   /\ Accepted(creds') = Accepted(creds)
          /\ (pc[p] = "UpdatePublicKey_Refresh" /\ pc'[p] # pc[p]) => creds' = creds]_vars

\* UpdatePublicKey has returned for a credential that has the new key and whose
\* secret was replaced by RegenerateSecret before
C21_Witness ==
    /\ pc["p1"] = Idle
    /\ ret["p1"].op = "UpdatePublicKey"
    /\ ret["p1"].err = NoError
    /\ ret["p1"].req.id \in CredIDs
    /\ creds[ret["p1"].req.id].PublicKey = ret["p1"].req.input.PublicKey
    /\ creds[ret["p1"].req.id].ClientSecret[2] > 1
    /\ ValidateCredentialResult(creds[ret["p1"].req.id].ClientID,
                                creds[ret["p1"].req.id].ClientSecret).err = NoError

\* a non-empty public key that is no PEM block, or a block of another type, or a
\* block whose body parses neither as PKIX nor as PKCS#1
InvalidKey(key) ==
    /\ key # EmptyKey
    /\ \/ ~key.block
       \/ key.type \notin {"PUBLIC KEY", "RSA PUBLIC KEY"}
       \/ ~ParsePKIXPublicKey(key.der) /\ ~ParsePKCS1PublicKey(key.der)

KeyOps == {"CreateCredential", "UpdatePublicKey"}

\* a CreateCredential with an empty public key that succeeds stores a row with no
\* key, no fingerprint and no key-added time
EmptyKeyAccepted ==
    \A p \in Procs :
        (Returns(p, "CreateCredential") /\ ret'[p].req.input.PublicKey = EmptyKey)
            => /\ ret'[p].err # ErrInvalidPublicKey
               /\ ret'[p].err = NoError
                     => \E i \in DOMAIN creds' \ CredIDs :
                           /\ ret'[p].val.Response.ID = i
                           /\ creds'[i].PublicKey = EmptyKey
                           /\ creds'[i].PublicKeyFingerprint = <<>>
                           /\ creds'[i].PublicKeyAddedAt = <<>>

\* C22, as stated (SpecPublicKey): CreateCredential and UpdatePublicKey given an
\* invalid public key fail with ErrInvalidPublicKey and leave the table unchanged;
\* CreateCredential given an empty key accepts it and stores no fingerprint and no
\* key-added time.
C22_InvalidKeyRejected_AsStated ==
    [][/\ \A p \in Procs, op \in KeyOps :
             (Returns(p, op) /\ InvalidKey(ret'[p].req.input.PublicKey))
                 => /\ ret'[p].err = ErrInvalidPublicKey
                    /\ ret'[p].val = NoVal
                    /\ creds' = creds
       /\ EmptyKeyAccepted]_vars

\* C22, amended (SpecPublicKey): CreateCredential and UpdatePublicKey given an
\* invalid public key fail and leave the table unchanged; the error is
\* ErrInvalidPublicKey when the call gets as far as the key, and is that of the
\* check made before it otherwise: ErrMaxCredentialsReached for a principal with 5
\* active credentials, ErrCredentialNotFound for a credential the principal does
\* not have. CreateCredential given an empty key accepts it and stores no
\* fingerprint and no key-added time.
C22_InvalidKeyRejected ==
    [][/\ \A p \in Procs :
             (Returns(p, "CreateCredential") /\ InvalidKey(ret'[p].req.input.PublicKey))
                 => /\ ret'[p].err =
                          IF CountByUserID(ret'[p].req.userID) >= MaxCredentialsPerUser
                          THEN ErrMaxCredentialsReached ELSE ErrInvalidPublicKey
                    /\ ret'[p].val = NoVal
                    /\ creds' = creds
       /\ \A p \in Procs :
             (Returns(p, "UpdatePublicKey") /\ InvalidKey(ret'[p].req.input.PublicKey))
                 => /\ ret'[p].err =
                          IF FindByIDAndUserID(ret'[p].req.id, ret'[p].req.userID) = {}
                          THEN ErrCredentialNotFound ELSE ErrInvalidPublicKey
                    /\ ret'[p].val = NoVal
                    /\ creds' = creds
       /\ EmptyKeyAccepted]_vars

\* UpdatePublicKey has refused a certificate for a stored credential, which keeps
\* the key it was created with
C22_Witness ==
    /\ pc["p1"] = Idle
    /\ ret["p1"].op = "UpdatePublicKey"
    /\ ret["p1"].err = ErrInvalidPublicKey
    /\ ret["p1"].req.input.PublicKey = CertPEM
    /\ ret["p1"].req.id \in CredIDs
    /\ creds[ret["p1"].req.id].PublicKey = Pkcs1PEM
    /\ \E i \in CredIDs : creds[i].PublicKey = EmptyKey /\ creds[i].PublicKeyAddedAt = <<>>

(***************************************************************************)
(* SpecRegister: two requests register and log in concurrently.            *)
(***************************************************************************)
RegisterEmails == {"a@b.com", "c@d.com"}
ConcurrentRegisterInputs == [Email : RegisterEmails, Password : {"pw"}, FullName : {"n"}]
ConcurrentLoginInputs == [Email : RegisterEmails, Password : {"pw"}]

\* Register calls that have passed the EmailExists check and not yet inserted
Registering == {q \in Procs : pc[q] = "Register_Create"}

\* a user ID is left for every insert in flight
ConcurrentRegisterStart(p) ==
    /\ Cardinality(UserIDs) + Cardinality(Registering) < Cardinality(Users)
    /\ \E input \in ConcurrentRegisterInputs : Register_EmailExists(p, input)

\* a Register of a stored email, which needs no user ID
RepeatedRegisterStart(p) ==
    \E input \in ConcurrentRegisterInputs :
        /\ EmailExists(input.Email)
        /\ Register_EmailExists(p, input)

ConcurrentLoginStart(p) == \E input \in ConcurrentLoginInputs : Login(p, input)

NextRegister ==
    \E p \in Procs :
        \/ ConcurrentRegisterStart(p)
        \/ RepeatedRegisterStart(p)
        \/ Register_Create(p)
        \/ ConcurrentLoginStart(p)

SpecRegister == InitAuth /\ [][NextRegister]_vars

\* the Register calls that created a user and returned tokens for the email
Registered(email) ==
    {p \in Procs : /\ pc[p] = Idle
                   /\ ret[p].op = "Register"
                   /\ ret[p].err = NoError
                   /\ ret[p].req.Email = email}

\* C23 (SpecRegister): no two stored users have the same email; Register called
\* with an email that is stored fails with ErrEmailExists and creates no user; of
\* two concurrent Register calls with the same new email at most one creates a user
\* and returns tokens.
C23_EmailUnique ==
    /\ [](/\ \A i, j \in UserIDs : users[i].Email = users[j].Email => i = j
          /\ \A email \in RegisterEmails : Cardinality(Registered(email)) <= 1)
    /\ [][/\ \A p \in Procs :
                (pc[p] = Idle /\ pc'[p] = "Register_Create")
                    => ~EmailExists(loc'[p].req.Email)
          /\ \A p \in Procs :
                (Returns(p, "Register") /\ pc[p] = Idle)
                    => /\ EmailExists(ret'[p].req.Email)
                       /\ ret'[p].err = ErrEmailExists
                       /\ ret'[p].val = NoVal
                       /\ users' = users
                       /\ issued' = issued
          /\ \A p \in Procs :
                (Returns(p, "Register") /\ pc[p] = "Register_Create")
                    => IF EmailExists(ret'[p].req.Email)
                       THEN /\ ret'[p].err # NoError
                            /\ ret'[p].val = NoVal
                            /\ users' = users
                            /\ issued' = issued
                       ELSE /\ ret'[p].err = NoError
                            /\ Cardinality(DOMAIN users') = Cardinality(UserIDs) + 1]_vars

\* both requests passed the EmailExists check for the same new email; one created
\* the user and got tokens, the other was refused by the index and got none
C23_Witness ==
    /\ pc["p1"] = Idle /\ pc["p2"] = Idle
    /\ ret["p1"].op = "Register" /\ ret["p2"].op = "Register"
    /\ ret["p1"].req.Email = ret["p2"].req.Email
    /\ ret["p1"].err = NoError
    /\ ret["p2"].err = ErrDuplicateKey
    /\ Cardinality(UserFindByEmail(ret["p1"].req.Email)) = 1

(***************************************************************************)
(* SpecMint: users register and generateAuthResponse is applied to them    *)
(* while the clock runs, the second changing between two readings or not.  *)
(***************************************************************************)
MaxMintInstant == 2

\* generateAuthResponse as Register, Login and RefreshToken call it for a stored user
GenerateAuthResponseCall(p, user, t) ==
    /\ pc[p] = Idle
    /\ UnchangedStores
    /\ UNCHANGED users
    /\ now' = t.refreshIat
    /\ Issue(GenerateAuthResponseAt(user, t))
    /\ Return(p, "generateAuthResponse", [user |-> user, t |-> t], NoError,
              GenerateAuthResponseAt(user, t))

MintStart(p) ==
    /\ now < MaxMintInstant
    /\ \E i \in UserIDs, t \in ClockReadings(now) : GenerateAuthResponseCall(p, users[i], t)

MintTick == \E t \in 1..MaxMintInstant : Tick(t)

NextMint ==
    \/ \E p \in Serial :
        \/ ConcurrentRegisterStart(p)
        \/ Register_Create(p)
        \/ MintStart(p)
    \/ MintTick

SpecMint == InitAuth /\ [][NextMint]_vars

\* C24 (SpecMint): for configured expiry H hours, the pair minted at time now has
\* an access token of type access with exp = now + H*3600, a refresh token of type
\* refresh with exp = now + 7*H*3600, iat = now in both and the same sub in both,
\* an email claim in the access token only, and ExpiresIn = H*3600; now is an
\* instant between the call and its return.
C24_MintedPair ==
    \A p \in Serial :
        (pc[p] = Idle /\ ret[p] # NoRet /\ ret[p].op = "generateAuthResponse")
            => LET H == cfg.JWTExpiryHours
                   access == ret[p].val.AccessToken
                   refresh == ret[p].val.RefreshToken
               IN \E n \in ret[p].req.t.accessExpiry .. ret[p].req.t.refreshIat :
                     /\ access.type = Str("access")
                     /\ access.exp = <<n + H * 3600>>
                     /\ access.iat = <<n>>
                     /\ refresh.type = Str("refresh")
                     /\ refresh.exp = <<n + 7 * H * 3600>>
                     /\ refresh.iat = <<n>>
                     /\ access.sub = refresh.sub
                     /\ access.sub = Str(ret[p].req.user.ID)
                     /\ access.email = Str(ret[p].req.user.Email)
                     /\ refresh.email = Absent
                     /\ ret[p].val.ExpiresIn = H * 3600

(***************************************************************************)
(* SpecOwnership: a principal holds credentials and API keys, and every    *)
(* operation on a stored row is called by its owner and by another         *)
(* principal; one request at a time.                                       *)
(***************************************************************************)
MaxOwnershipRows == 2
MaxOwnershipDraws == 2

OwnershipRows == Cardinality(KeyIDs) + Cardinality(CredIDs)

\* the principal that creates the rows; the other principals hold none
Owner == "u1"

OwnershipCreateCredentialStart(p) ==
    /\ OwnershipRows < MaxOwnershipRows
    /\ rng < MaxOwnershipDraws
    /\ \E input \in QuotaInputs : CreateCredential_Count(p, Owner, input, FreshClientID)

OwnershipCreateKeyStart(p) ==
    /\ OwnershipRows < MaxOwnershipRows
    /\ \E input \in CreateKeyInputs : CreateKey_Count(p, Owner, input)

OwnershipGetCredentialStart(p) ==
    \E id \in CredIDs, userID \in Users : GetCredential(p, id, userID)

OwnershipUpdateCredentialStart(p) ==
    \E id \in CredIDs, userID \in Users, input \in UpdateCredentialInputs :
        UpdateCredential_Find(p, id, userID, input)

OwnershipUpdatePublicKeyStart(p) ==
    \E id \in CredIDs, userID \in Users :
        UpdatePublicKey_Find(p, id, userID, [PublicKey |-> Pkix2PEM])

OwnershipRegenerateSecretStart(p) ==
    \E id \in CredIDs, userID \in Users :
        /\ rng < MaxOwnershipDraws \/ FindByIDAndUserID(id, userID) = {}
        /\ RegenerateSecret_Find(p, id, userID)

OwnershipDeleteCredentialStart(p) ==
    \E id \in CredIDs, userID \in Users : DeleteCredential_Find(p, id, userID)

OwnershipRevokeKeyStart(p) ==
    \E keyID \in KeyIDs, userID \in Users : RevokeKey_Find(p, keyID, userID)

NextOwnership ==
    \E p \in Serial :
        \/ OwnershipCreateCredentialStart(p)
        \/ CreateCredential_Insert(p)
        \/ OwnershipCreateKeyStart(p)
        \/ CreateKey_Insert(p)
        \/ OwnershipGetCredentialStart(p)
        \/ OwnershipUpdateCredentialStart(p)
        \/ UpdateCredentialSave(p)
        \/ OwnershipUpdatePublicKeyStart(p)
        \/ UpdatePublicKey_Update(p)
        \/ UpdatePublicKey_Refresh(p)
        \/ OwnershipRegenerateSecretStart(p)
        \/ RegenerateSecretSave(p)
        \/ OwnershipDeleteCredentialStart(p)
        \/ DeleteCredential_Delete(p)
        \/ OwnershipRevokeKeyStart(p)
        \/ RevokeKey_Revoke(p)

SpecOwnership == Init /\ [][NextOwnership]_vars

CredentialOps ==
    {"GetCredential", "UpdateCredential", "UpdatePublicKey", "RegenerateSecret",
     "DeleteCredential"}

\* the request names a stored credential of another principal
ForeignCredential(req) == req.id \in CredIDs /\ creds[req.id].UserID # req.userID

\* the request names a stored API key of another principal
ForeignKey(req) == req.keyID \in KeyIDs /\ apiKeys[req.keyID].UserID # req.userID

\* C25 (SpecOwnership): GetCredential, UpdateCredential, UpdatePublicKey,
\* RegenerateSecret and DeleteCredential called with the ID of a credential of
\* another principal return ErrCredentialNotFound, and RevokeKey called on another
\* principal's key returns ErrKeyNotFound; the call ends at its lookup, changes no
\* stored row and returns no value.
C25_OwnRecordsOnly ==
    [][\A p \in Procs :
          /\ \A op \in CredentialOps :
                /\ (Returns(p, op) /\ ForeignCredential(ret'[p].req))
                      => /\ pc[p] = Idle
                         /\ ret'[p].err = ErrCredentialNotFound
                         /\ ret'[p].val = NoVal
                         /\ creds' = creds /\ apiKeys' = apiKeys /\ users' = users
                /\ (pc[p] = Idle /\ pc'[p] # Idle /\ loc'[p].op = op)
                      => ~ForeignCredential(loc'[p].req)
          /\ (Returns(p, "RevokeKey") /\ ForeignKey(ret'[p].req))
                => /\ pc[p] = Idle
                   /\ ret'[p].err = ErrKeyNotFound
                   /\ ret'[p].val = NoVal
                   /\ creds' = creds /\ apiKeys' = apiKeys /\ users' = users
          /\ (pc[p] = Idle /\ pc'[p] # Idle /\ loc'[p].op = "RevokeKey")
                => ~ForeignKey(loc'[p].req)]_vars

\* u2 has asked to delete the credential of u1 and was told it is not found; the
\* credential is stored, live and active
C25_Witness ==
    /\ pc["p1"] = Idle
    /\ ret["p1"].op = "DeleteCredential"
    /\ ret["p1"].err = ErrCredentialNotFound
    /\ ret["p1"].req.userID = "u2"
    /\ ret["p1"].req.id \in CredIDs
    /\ creds[ret["p1"].req.id].UserID = "u1"
    /\ Live(ret["p1"].req.id)
    /\ creds[ret["p1"].req.id].IsActive

\* the columns UpdateCredential is to leave alone
KeyMaterial(row) ==
    [ClientSecret |-> row.ClientSecret, ClientSecretPrefix |-> row.ClientSecretPrefix,
     PublicKey |-> row.PublicKey, PublicKeyFingerprint |-> row.PublicKeyFingerprint]

\* C26 (SpecRotation): the write of a successful UpdateCredential changes, in the
\* row it names, nothing but partner name, environment, callback URL and IP
\* allow-list, partner name and environment only when the input gives one; client
\* secret, secret prefix, public key and fingerprint are after it what
\* CreateCredential, RegenerateSecret or UpdatePublicKey last persisted, also when
\* an UpdatePublicKey on the same row runs concurrently.
C26_UpdateCredentialFrame ==
    [][\A p \in Procs :
          (/\ pc[p] = "UpdateCredential_Save"
           /\ Returns(p, "UpdateCredential")
           /\ ret'[p].err = NoError)
              => LET id == loc[p].req.id
                     input == loc[p].req.input
                 IN /\ KeyMaterial(creds'[id]) = KeyMaterial(creds[id])
                    /\ input.PartnerName = "" => creds'[id].PartnerName = creds[id].PartnerName
                    /\ input.Environment = "" => creds'[id].Environment = creds[id].Environment
                    /\ creds'[id].ID = creds[id].ID
                    /\ creds'[id].UserID = creds[id].UserID
                    /\ creds'[id].ClientID = creds[id].ClientID
                    /\ creds'[id].ChannelID = creds[id].ChannelID
                    /\ creds'[id].IsActive = creds[id].IsActive]_vars

(***************************************************************************)
(* SpecKeyDelete: UpdatePublicKey and DeleteCredential on the credentials  *)
(* of one principal, handled concurrently.                                 *)
(***************************************************************************)
MaxKeyDeleteRows == 2

KeyDeleteCreateStart(p) ==
    /\ Cardinality(CredIDs) < MaxKeyDeleteRows
    /\ AllIdle
    /\ \E input \in QuotaInputs : CreateCredential_Count(p, "u1", input, FreshClientID)

KeyDeleteUpdatePublicKeyStart(p) ==
    \E id \in CredIDs, input \in UpdatePublicKeyInputs :
        UpdatePublicKey_Find(p, id, creds[id].UserID, input)

NextKeyDelete ==
    \E p \in Procs :
        \/ KeyDeleteCreateStart(p)
        \/ CreateCredential_Insert(p)
        \/ KeyDeleteUpdatePublicKeyStart(p)
        \/ UpdatePublicKey_Update(p)
        \/ UpdatePublicKey_Refresh(p)
        \/ QuotaDeleteStart(p)
        \/ DeleteCredential_Delete(p)

SpecKeyDelete == Init /\ [][NextKeyDelete]_vars

\* the errors UpdatePublicKey returns to its caller
UpdatePublicKeyErrors == {ErrCredentialNotFound, ErrInvalidPublicKey, ErrDatabase}

\* C27 (SpecKeyDelete): UpdatePublicKey ends by returning a response built from a
\* stored record or an error, also when a DeleteCredential of the same credential
\* runs concurrently; it builds no response from a record its re-read did not find.
C27_UpdatePublicKeyReturns ==
    [][\A p \in Procs :
          Returns(p, "UpdatePublicKey")
              => \/ /\ ret'[p].err \in UpdatePublicKeyErrors
                    /\ ret'[p].val = NoVal
                 \/ /\ ret'[p].err = NoError
                    /\ FindByIDAndUserID(ret'[p].req.id, ret'[p].req.userID) # {}
                    /\ ret'[p].val = ToResponse(creds[ret'[p].req.id])]_vars

(***************************************************************************)
(* SpecTerminal: a principal's credential is read, listed, validated,      *)
(* updated, rotated and deleted by requests handled concurrently.          *)
(***************************************************************************)
MaxTerminalRows == 1
MaxTerminalDraws == 2

TerminalCreateStart(p) ==
    /\ Cardinality(CredIDs) < MaxTerminalRows
    /\ rng < MaxTerminalDraws
    /\ AllIdle
    /\ \E input \in QuotaInputs : CreateCredential_Count(p, "u1", input, FreshClientID)

TerminalRegenerateSecretStart(p) ==
    \E id \in CredIDs :
        /\ rng < MaxTerminalDraws \/ ~Live(id)
        /\ RegenerateSecret_Find(p, id, creds[id].UserID)

\* the client IDs and secrets of the stored rows are presented
TerminalValidateStart(p) ==
    \E id \in CredIDs :
        ValidateCredential_Find(p, creds[id].ClientID, creds[id].ClientSecret)

NextTerminal ==
    \E p \in Procs :
        \/ TerminalCreateStart(p)
        \/ CreateCredential_Insert(p)
        \/ StoreGetCredentialStart(p)
        \/ StoreListCredentialsStart(p)
        \/ StoreUpdateCredentialStart(p)
        \/ UpdateCredentialSave(p)
        \/ StoreUpdatePublicKeyStart(p)
        \/ UpdatePublicKey_Update(p)
        \/ UpdatePublicKey_Refresh(p)
        \/ TerminalRegenerateSecretStart(p)
        \/ RegenerateSecretSave(p)
        \/ QuotaDeleteStart(p)
        \/ DeleteCredential_Delete(p)
        \/ TerminalValidateStart(p)
        \/ ValidateCredentialUpdateLastUsed(p)

SpecTerminal == Init /\ [][NextTerminal]_vars

\* the row has been deleted by DeleteCredential
Deleted(id) == id \in CredIDs /\ creds[id].DeletedAt # <<>>

\* C28 (SpecTerminal): a credential DeleteCredential has deleted stays deleted
\* whatever runs afterwards; GetCredential, UpdateCredential, UpdatePublicKey,
\* RegenerateSecret and DeleteCredential called for it return
\* ErrCredentialNotFound, ListCredentials does not list it, and ValidateCredential
\* with its client ID and last secret fails.
C28_DeletionTerminal ==
    [][/\ \A i \in CredIDs :
             Deleted(i) => i \in DOMAIN creds' /\ creds'[i].DeletedAt # <<>>
       /\ \A p \in Procs, op \in CredentialOps :
             /\ (pc[p] = Idle /\ Returns(p, op) /\ Deleted(ret'[p].req.id))
                   => ret'[p].err = ErrCredentialNotFound /\ ret'[p].val = NoVal
             /\ (pc[p] = Idle /\ pc'[p] # Idle /\ loc'[p].op = op)
                   => ~Deleted(loc'[p].req.id)
       /\ \A p \in Procs :
             Returns(p, "ListCredentials")
                 => \A k \in DOMAIN ret'[p].val.Items : ~Deleted(ret'[p].val.Items[k].ID)
       /\ \A p \in Procs :
             /\ (pc[p] = Idle /\ Returns(p, "ValidateCredential")
                     /\ \E i \in CredIDs :
                           /\ Deleted(i)
                           /\ creds[i].ClientID = ret'[p].req.clientID
                           /\ creds[i].ClientSecret = ret'[p].req.clientSecret)
                   => ret'[p].err # NoError /\ ret'[p].val = NoVal
             /\ (pc[p] = Idle /\ pc'[p] = "ValidateCredential_UpdateLastUsed")
                   => ~Deleted(loc'[p].credential.ID)]_vars

(***************************************************************************)
(* SpecKeyMaterial: the public key columns of a credential under           *)
(* CreateCredential, UpdatePublicKey, UpdateCredential and                 *)
(* RegenerateSecret, with and without a key; one request at a time.        *)
(***************************************************************************)
MaxKeyMaterialRows == 2
MaxKeyMaterialDraws == 3
MaxKeyMaterialInstant == 1

KeyMaterialCreateStart(p) ==
    /\ Cardinality(CredIDs) < MaxKeyMaterialRows
    /\ rng < MaxKeyMaterialDraws
    /\ \E k \in {EmptyKey, Pkcs1PEM} :
          CreateCredential_Count(p, "u1",
              [PartnerName |-> "acme", Environment |-> "", CallbackURL |-> "",
               IPWhitelist |-> <<>>, PublicKey |-> k], FreshClientID)

KeyMaterialUpdatePublicKeyStart(p) ==
    \E id \in CredIDs, k \in {EmptyKey, Pkix2PEM} :
        UpdatePublicKey_Find(p, id, creds[id].UserID, [PublicKey |-> k])

KeyMaterialRegenerateSecretStart(p) ==
    /\ rng < MaxKeyMaterialDraws
    /\ \E id \in CredIDs : RegenerateSecret_Find(p, id, creds[id].UserID)

KeyMaterialTick == \E t \in 1..MaxKeyMaterialInstant : Tick(t)

NextKeyMaterial ==
    \/ \E p \in Serial :
          \/ KeyMaterialCreateStart(p)
          \/ CreateCredential_Insert(p)
          \/ KeyMaterialUpdatePublicKeyStart(p)
          \/ UpdatePublicKey_Update(p)
          \/ UpdatePublicKey_Refresh(p)
          \/ StoreUpdateCredentialStart(p)
          \/ UpdateCredentialSave(p)
          \/ KeyMaterialRegenerateSecretStart(p)
          \/ RegenerateSecretSave(p)
    \/ KeyMaterialTick

SpecKeyMaterial == Init /\ [][NextKeyMaterial]_vars

\* C29 (SpecKeyMaterial): every stored credential has its public key, its stored
\* fingerprint and its key-added time all present or all absent, and a stored
\* fingerprint is the full digest ValidatePublicKey returns for the stored key, not
\* its display form.
C29_KeyColumnsTogether ==
    \A i \in CredIDs :
        /\ (creds[i].PublicKey = EmptyKey) = (creds[i].PublicKeyFingerprint = <<>>)
        /\ (creds[i].PublicKey = EmptyKey) = (creds[i].PublicKeyAddedAt = <<>>)
        /\ creds[i].PublicKey # EmptyKey
              => /\ creds[i].PublicKeyFingerprint = ValidatePublicKey(creds[i].PublicKey).fingerprint
                 /\ creds[i].PublicKeyFingerprint # FormatFingerprint(creds[i].PublicKeyFingerprint)

(***************************************************************************)
(* SpecLogin: accounts are created by Register and by GoogleAuth, and      *)
(* Login is tried on them; one request at a time.                          *)
(***************************************************************************)
ProviderIDs == {"g1", "g2"}
LoginEmails == RegisterEmails \cup {"x@y.com"}
PasswordInputs == {"pw", "bad", ""}

\* a user ID is left when the call is to create a user
GoogleAuthStart(p) ==
    \E email \in RegisterEmails, providerID \in ProviderIDs :
        /\ \/ UserIDs # Users
           \/ UserFindByProvider("google", providerID) # {}
           \/ UserFindByEmail(email) # {}
        /\ GoogleAuth(p, email, "n", providerID)

LoginAnyStart(p) ==
    \E email \in LoginEmails, password \in PasswordInputs :
        Login(p, [Email |-> email, Password |-> password])

NextLogin ==
    \E p \in Serial :
        \/ ConcurrentRegisterStart(p)
        \/ Register_Create(p)
        \/ GoogleAuthStart(p)
        \/ LoginAnyStart(p)

SpecLogin == InitAuth /\ [][NextLogin]_vars

\* the stored users Login would let in with the email and the password
Admitted(input) ==
    {i \in UserFindByEmail(input.Email) :
        /\ users[i].PasswordHash # EmptyHash
        /\ users[i].PasswordHash = BcryptHash(input.Password)}

\* C30 (SpecLogin): Login issues tokens only when a user with the email is stored,
\* has a password hash, and the password matches it; for an unknown email, a wrong
\* password and an account without a password hash it returns
\* ErrInvalidCredentials, issues no tokens and changes no stored record.
C30_LoginDecision ==
    [][\A p \in Procs :
          (\E email \in LoginEmails, password \in PasswordInputs :
                Login(p, [Email |-> email, Password |-> password]))
              => /\ pc'[p] = Idle
                 /\ ret'[p].op = "Login"
                 /\ users' = users /\ creds' = creds /\ apiKeys' = apiKeys
                 /\ IF Admitted(ret'[p].req) = {}
                    THEN /\ ret'[p].err = ErrInvalidCredentials
                         /\ ret'[p].val = NoVal
                         /\ issued' = issued
                    ELSE /\ ret'[p].err = NoError
                         /\ \E i \in Admitted(ret'[p].req) :
                               /\ ret'[p].val.User = UserToResponse(users[i])
                               /\ ret'[p].val.AccessToken.sub = Str(i)
                               /\ issued' = issued \cup
                                     {[AccessToken |-> ret'[p].val.AccessToken,
                                       RefreshToken |-> ret'[p].val.RefreshToken]}]_vars

\* Login was refused for the email of an account GoogleAuth created, which has no
\* password hash, while a registered account is stored beside it
C30_Witness ==
    /\ pc["p1"] = Idle
    /\ ret["p1"].op = "Login"
    /\ ret["p1"].err = ErrInvalidCredentials
    /\ \E i \in UserFindByEmail(ret["p1"].req.Email) :
          users[i].PasswordHash = EmptyHash /\ users[i].Provider = "google"
    /\ \E j \in UserIDs : users[j].PasswordHash = BcryptHash("pw")

====
